---------------------------- MODULE Spec2Model ----------------------------
(***************************************************************************)
(* Model of imap_data_access: the filename grammars, their validation and  *)
(* the archive paths derived from them (file_validation.py).               *)
(*                                                                         *)
(* Python strings are TLA+ strings; TLC evaluates Len, \o and SubSeq on    *)
(* them, so the parsers below work on the characters of the filename, as   *)
(* the regular expressions of the source do.                               *)
(***************************************************************************)
EXTENDS Integers, Sequences, FiniteSets, TLC

VARIABLES data_dir, pc, call, outcome, collection, files, sent

vars == <<data_dir, pc, call, outcome, collection, files, sent>>

---------------------------------------------------------------------------
(* Bounds of the model and constants of the program                        *)

\* Repointing numbers 0..MaxRepointing are tried as generate_from_inputs
\* inputs, next to the two largest ones (99999 and 100000).
MaxRepointing == 2

\* \d{8} of the start_date and end_date groups.
DateDigits == 8
\* \d{5} of the repointing group, and the width of {repointing:05d}.
RepointDigits == 5
\* \d{3} of the version group.
VersionDigits == 3

---------------------------------------------------------------------------
(* Python values                                                           *)

\* An optional value (x or None) is a sequence of at most one element.
None == <<>>
Some(x) == <<x>>
IsNone(o) == o = <<>>
Get(o) == o[1]

---------------------------------------------------------------------------
(* Strings                                                                 *)

Digits == {"0", "1", "2", "3", "4", "5", "6", "7", "8", "9"}

\* s[i-1] of Python, 1-based here.
Ch(s, i) == SubSeq(s, i, i)

Min(a, b) == IF a < b THEN a ELSE b
Max(a, b) == IF a > b THEN a ELSE b

\* s[a:b] of Python (0-based, end exclusive, clamped to the string).
Slice(s, a, b) ==
    LET lo == Min(Max(a, 0), Len(s))
        hi == Min(Max(b, 0), Len(s))
    IN  IF hi <= lo THEN "" ELSE SubSeq(s, lo + 1, hi)

\* s[a:] of Python.
SliceFrom(s, a) == Slice(s, a, Len(s))

AllDigits(s) == \A i \in 1..Len(s) : Ch(s, i) \in Digits

\* \d{n} matched against the whole of s.
IsNDigits(s, n) == Len(s) = n /\ AllDigits(s)

StartsWith(s, p) == Len(s) >= Len(p) /\ Slice(s, 0, Len(p)) = p
EndsWith(s, p) == Len(s) >= Len(p) /\ SliceFrom(s, Len(s) - Len(p)) = p

\* The 1-based positions of character c in s.
Positions(s, c) == {i \in 1..Len(s) : Ch(s, i) = c}

SetMin(S) == CHOOSE x \in S : \A y \in S : x <= y
SetMax(S) == CHOOSE x \in S : \A y \in S : x >= y

\* The 0-based index of the last (first) of the 1-based positions P, -1
\* when there is none.
LastIndex(P) == IF P = {} THEN -1 ELSE SetMax(P) - 1
FirstIndex(P) == IF P = {} THEN -1 ELSE SetMin(P) - 1

\* s.rfind(c) of Python: 0-based index of the last c, -1 when absent.
RFind(s, c) == LastIndex(Positions(s, c))

\* s.find(c) of Python.
Find(s, c) == FirstIndex(Positions(s, c))

\* s.split(c) of Python: the fields between the occurrences of c. SplitAt
\* is the split of s given the index i of its first c.
RECURSIVE Split(_, _)
RECURSIVE SplitAt(_, _, _)
SplitAt(s, c, i) ==
    IF i = -1 THEN <<s>>
    ELSE <<Slice(s, 0, i)>> \o Split(SliceFrom(s, i + 1), c)

Split(s, c) == SplitAt(s, c, Find(s, c))

\* c.join(parts) of Python.
RECURSIVE Join(_, _)
Join(parts, c) ==
    IF Len(parts) = 0 THEN ""
    ELSE IF Len(parts) = 1 THEN parts[1]
    ELSE parts[1] \o c \o Join(Tail(parts), c)

\* s.lstrip(c) of Python.
RECURSIVE LStrip(_, _)
LStrip(s, c) == IF StartsWith(s, c) THEN LStrip(SliceFrom(s, 1), c) ELSE s

DigitVal(c) ==
    CASE c = "0" -> 0 [] c = "1" -> 1 [] c = "2" -> 2 [] c = "3" -> 3
      [] c = "4" -> 4 [] c = "5" -> 5 [] c = "6" -> 6 [] c = "7" -> 7
      [] c = "8" -> 8 [] c = "9" -> 9

DigitChar(n) ==
    CASE n = 0 -> "0" [] n = 1 -> "1" [] n = 2 -> "2" [] n = 3 -> "3"
      [] n = 4 -> "4" [] n = 5 -> "5" [] n = 6 -> "6" [] n = 7 -> "7"
      [] n = 8 -> "8" [] n = 9 -> "9"

\* int(s) of Python for a string of decimal digits.
RECURSIVE ToInt(_)
ToInt(s) ==
    IF Len(s) = 0 THEN 0
    ELSE 10 * ToInt(Slice(s, 0, Len(s) - 1)) + DigitVal(Ch(s, Len(s)))

\* str(n) of Python for n >= 0.
RECURSIVE IntToStr(_)
IntToStr(n) == IF n < 10 THEN DigitChar(n) ELSE IntToStr(n \div 10) \o DigitChar(n % 10)

\* f"{n:0wd}" of Python for n >= 0: zero-padded to at least w characters.
RECURSIVE ZeroPad(_, _)
ZeroPad(s, w) == IF Len(s) >= w THEN s ELSE ZeroPad("0" \o s, w)

Format05d(n) == ZeroPad(IntToStr(n), RepointDigits)

\* The position at which a pattern ending in $ ends its match: re's $ (no
\* MULTILINE) matches at the end of the string and just before a newline
\* that ends it, so the pattern is matched against the string without it.
DollarTarget(s) == IF EndsWith(s, "\n") THEN Slice(s, 0, Len(s) - 1) ELSE s

---------------------------------------------------------------------------
(* pathlib.Path (PurePosixPath)                                            *)

\* A Path is its root ("/" or "") and its components. Path(s) splits s at
\* "/", and drops the empty components and the "." components.
PathOf(s) ==
    [root |-> IF StartsWith(s, "/") THEN "/" ELSE "",
     parts |-> SelectSeq(Split(s, "/"), LAMBDA p : p # "" /\ p # ".")]

\* str(path)
PathStr(p) ==
    IF p.root = "" /\ Len(p.parts) = 0 THEN "." ELSE p.root \o Join(p.parts, "/")

\* path.name: the final component, "" when there is none.
PathName(p) == IF Len(p.parts) = 0 THEN "" ELSE p.parts[Len(p.parts)]

\* a / b: an absolute b replaces a.
PathJoin(a, b) ==
    IF b.root = "/" THEN b ELSE [root |-> a.root, parts |-> a.parts \o b.parts]

\* path.suffix: from the last "." of the name, unless that "." starts or
\* ends the name. i is name.rfind(".").
SuffixAt(name, i) == IF 0 < i /\ i < Len(name) - 1 THEN SliceFrom(name, i) ELSE ""

PathSuffix(p) == SuffixAt(PathName(p), RFind(PathName(p), "."))

\* path.suffixes: [] for a name ending in "."; else "." + each field after
\* the first of name.lstrip(".").split(".").
DotFields(fields) == [i \in 1..(Len(fields) - 1) |-> "." \o fields[i + 1]]

PathSuffixes(p) ==
    IF EndsWith(PathName(p), ".") THEN <<>>
    ELSE DotFields(Split(LStrip(PathName(p), "."), "."))

---------------------------------------------------------------------------
(* Package constants (imap_data_access/__init__.py)                        *)

VALID_INSTRUMENTS ==
    {"codice", "glows", "hi", "hit", "idex", "lo", "mag", "swapi", "swe", "ultra"}

VALID_DATALEVELS == {"l0", "l1", "l1a", "l1b", "l1c", "l2", "l3", "l3a"}

VALID_FILE_EXTENSION == {"pkts", "cdf"}

VALID_ANCILLARY_FILE_EXTENSION == {"cdf"}

\* config["DATA_DIR"]: unset (None), empty (""), or a Path.
DataDirNone == [type |-> "NoneType"]
DataDirEmpty == [type |-> "str", s |-> ""]
DataDirPath(s) == [type |-> "Path", path |-> PathOf(s)]

\* bool(data_dir): None and "" are falsy, a Path is always truthy.
Truthy(d) ==
    CASE d.type = "NoneType" -> FALSE
      [] d.type = "str" -> d.s # ""
      [] d.type = "Path" -> TRUE

---------------------------------------------------------------------------
(* ImapFilePath.is_valid_date and is_valid_version                         *)

IsLeap(y) == (y % 4 = 0 /\ y % 100 # 0) \/ y % 400 = 0

DaysInMonth(y, m) ==
    IF m = 2 THEN (IF IsLeap(y) THEN 29 ELSE 28)
    ELSE IF m \in {4, 6, 9, 11} THEN 30 ELSE 31

\* The alternatives of strptime's %m, in the order the regex tries them:
\* 1[0-2] | 0[1-9] | [1-9]. Each is the text it would match at 0-based
\* position pos of s, or "" when it does not match there.
MonthAlternatives(s, pos) ==
    LET c1 == Slice(s, pos, pos + 1)
        c2 == Slice(s, pos + 1, pos + 2)
    IN  << IF c1 = "1" /\ c2 \in {"0", "1", "2"} THEN c1 \o c2 ELSE "",
           IF c1 = "0" /\ c2 \in Digits \ {"0"} THEN c1 \o c2 ELSE "",
           IF c1 \in Digits \ {"0"} THEN c1 ELSE "" >>

\* The alternatives of %d: 3[0-1] | [1-2]\d | 0[1-9] | [1-9] | " "[1-9].
DayAlternatives(s, pos) ==
    LET c1 == Slice(s, pos, pos + 1)
        c2 == Slice(s, pos + 1, pos + 2)
    IN  << IF c1 = "3" /\ c2 \in {"0", "1"} THEN c1 \o c2 ELSE "",
           IF c1 \in {"1", "2"} /\ c2 \in Digits THEN c1 \o c2 ELSE "",
           IF c1 = "0" /\ c2 \in Digits \ {"0"} THEN c1 \o c2 ELSE "",
           IF c1 \in Digits \ {"0"} THEN c1 ELSE "",
           IF c1 = " " /\ c2 \in Digits \ {"0"} THEN c1 \o c2 ELSE "" >>

NonEmpty(alternatives) == SelectSeq(alternatives, LAMBDA a : a # "")

\* The day alternatives that match after the month text m.
DayMatches(s, m) == NonEmpty(DayAlternatives(s, 4 + Len(m)))

\* The month alternatives after which some day alternative matches.
MonthMatches(s) ==
    SelectSeq(MonthAlternatives(s, 4),
              LAMBDA m : m # "" /\ Len(DayMatches(s, m)) > 0)

\* The match of (\d\d\d\d)(%m)(%d) at the start of s, as re.match finds it:
\* the first month alternative, in order, after which a day alternative
\* matches, with the first such day alternative. None when nothing matches.
StrptimeGroups(s, months) ==
    IF Len(s) < 4 \/ ~AllDigits(Slice(s, 0, 4)) \/ Len(months) = 0
    THEN None
    ELSE Some([Y |-> Slice(s, 0, 4), m |-> months[1],
               d |-> DayMatches(s, months[1])[1]])

StrptimeMatch(s) == StrptimeGroups(s, MonthMatches(s))

\* datetime(year, month, day) accepts years from 1 and the days of the month.
DateAccepted(y, m, d) == y >= 1 /\ d <= DaysInMonth(y, m)

\* The rest of strptime after the match g: ValueError (FALSE) for
\* unconverted data after the match, or a date datetime does not accept.
StrptimeConvert(s, g) ==
    /\ 4 + Len(g.m) + Len(g.d) = Len(s)
    /\ DateAccepted(ToInt(g.Y), ToInt(g.m), ToInt(LStrip(g.d, " ")))

\* datetime.strptime(s, "%Y%m%d") returns (TRUE) or raises ValueError (FALSE).
StrptimeOk(s, found) == ~IsNone(found) /\ StrptimeConvert(s, Get(found))

is_valid_date(input_date) == StrptimeOk(input_date, StrptimeMatch(input_date))

\* re.fullmatch(r"v\d{3}", s)
FullMatchVersion(s) ==
    /\ Len(s) = 1 + VersionDigits
    /\ Ch(s, 1) = "v"
    /\ AllDigits(SliceFrom(s, 1))

\* An is_valid_version that matches with re.match: the pattern need not
\* reach the end of the string.
is_valid_version_PrefixMatch(input_version) ==
    IF input_version = "latest" THEN "True"
    ELSE IF FullMatchVersion(Slice(input_version, 0, 1 + VersionDigits))
         THEN "Match" ELSE "None"

\* The value is_valid_version returns: True, a Match or None; the callers
\* test its truth.
is_valid_version(input_version) ==
    IF input_version = "latest" THEN "True"
    ELSE IF FullMatchVersion(input_version) THEN "Match" ELSE "None"

IsTrue(v) == v \in {"True", "Match"}

---------------------------------------------------------------------------
(* Outcomes of a call: a returned value or a raised exception              *)

Return(v) == [kind |-> "return", value |-> v]

\* message is the sequence of the entries (lines) of the exception's text.
Raise(exc, message) == [kind |-> "raise", exc |-> exc, message |-> message]

Returned(o) == o.kind = "return"
Raised(o) == o.kind = "raise"

---------------------------------------------------------------------------
(* ScienceFilePath                                                         *)

\* \d{8}(-repoint\d{5})? against the whole of t.
MatchScienceTimeField(t) ==
    \/ IsNDigits(t, DateDigits)
    \/ /\ Len(t) = DateDigits + Len("-repoint") + RepointDigits
       /\ AllDigits(Slice(t, 0, DateDigits))
       /\ Slice(t, DateDigits, DateDigits + Len("-repoint")) = "-repoint"
       /\ AllDigits(SliceFrom(t, DateDigits + Len("-repoint")))

\* v\d{3}\.(e1|e2|...) against the whole of t.
MatchVersionDotExtension(t, extensions) ==
    /\ FullMatchVersion(Slice(t, 0, 1 + VersionDigits))
    /\ Slice(t, 1 + VersionDigits, 2 + VersionDigits) = "."
    /\ SliceFrom(t, 2 + VersionDigits) \in extensions

\* The groups of the science pattern for the "_"-separated fields f of the
\* name, or None when the pattern does not match. No field of the pattern
\* can hold "_", so a name matches exactly when its fields are the six
\* fields of the pattern.
ScienceGroups(f) ==
    IF /\ Len(f) = 6
       /\ f[1] = "imap"
       /\ f[2] # "" /\ f[3] # "" /\ f[4] # ""
       /\ MatchScienceTimeField(f[5])
       /\ MatchVersionDotExtension(f[6], {"cdf", "pkts"})
    THEN Some([mission |-> f[1],
               instrument |-> f[2],
               data_level |-> f[3],
               descriptor |-> f[4],
               start_date |-> Slice(f[5], 0, DateDigits),
               repointing |->
                   \* int() of the group when the optional group matched
                   IF Len(f[5]) > DateDigits
                   THEN Some(ToInt(SliceFrom(f[5], DateDigits + Len("-repoint"))))
                   ELSE None,
               version |-> Slice(f[6], 0, 1 + VersionDigits),
               extension |-> SliceFrom(f[6], 2 + VersionDigits)])
    ELSE None

\* ScienceFilePath.extract_filename_components(filename) for a Path: the
\* pattern is matched against filename.name; None stands for the
\* InvalidScienceFileError of a name that does not match.
ScienceExtract(filename) ==
    ScienceGroups(Split(DollarTarget(PathName(filename)), "_"))

\* re.match(r"^v\d{3}$", version)
MatchVersionDollar(version) == FullMatchVersion(DollarTarget(version))

\* bool(x) for x an int or None: None and 0 are falsy.
PyTruthyInt(o) == ~IsNone(o) /\ Get(o) # 0

\* isinstance(x, int) for a value that is set.
IsInstanceInt(o) == \A i \in 1..Len(o) : o[i] \in Int

\* The entries of the error message, in the order the checks append them.
Entry(cond, text) == IF cond THEN <<text>> ELSE <<>>

\* A validate_filename without the start date check.
ScienceValidate_NoDateCheck(self) ==
    Entry(self.mission # "imap", "Invalid mission")
    \o Entry(self.instrument \notin VALID_INSTRUMENTS, "Invalid instrument")
    \o Entry(self.data_level \notin VALID_DATALEVELS, "Invalid data level")
    \o Entry(~MatchVersionDollar(self.version), "Invalid version format")
    \o Entry(\/ self.extension \notin VALID_FILE_EXTENSION
             \/ (self.data_level = "l0" /\ self.extension # "pkts")
             \/ (self.data_level # "l0" /\ self.extension # "cdf"),
             "Invalid extension")

\* A validate_filename that returns at the first violation it finds.
ScienceValidate_FirstOnly(self) ==
    IF self.mission # "imap" THEN <<"Invalid mission">>
    ELSE IF self.instrument \notin VALID_INSTRUMENTS THEN <<"Invalid instrument">>
    ELSE IF self.data_level \notin VALID_DATALEVELS THEN <<"Invalid data level">>
    ELSE IF ~is_valid_date(self.start_date) THEN <<"Invalid start date format">>
    ELSE IF ~MatchVersionDollar(self.version) THEN <<"Invalid version format">>
    ELSE IF \/ self.extension \notin VALID_FILE_EXTENSION
            \/ (self.data_level = "l0" /\ self.extension # "pkts")
            \/ (self.data_level # "l0" /\ self.extension # "cdf")
         THEN <<"Invalid extension">>
    ELSE <<>>

\* ScienceFilePath.validate_filename(self): every check appends its entry.
ScienceValidate(self) ==
    Entry(\E a \in {self.mission, self.instrument, self.data_level,
                    self.descriptor, self.start_date, self.version,
                    self.extension} : a = "",
          "missing attribute")
    \o Entry(self.mission # "imap", "Invalid mission")
    \o Entry(self.instrument \notin VALID_INSTRUMENTS, "Invalid instrument")
    \o Entry(self.data_level \notin VALID_DATALEVELS, "Invalid data level")
    \o Entry(~is_valid_date(self.start_date), "Invalid start date format")
    \o Entry(~MatchVersionDollar(self.version), "Invalid version format")
    \o Entry(PyTruthyInt(self.repointing) /\ ~IsInstanceInt(self.repointing),
             "The repointing number should be an integer")
    \o Entry(\/ self.extension \notin VALID_FILE_EXTENSION
             \/ (self.data_level = "l0" /\ self.extension # "pkts")
             \/ (self.data_level # "l0" /\ self.extension # "cdf"),
             "Invalid extension")

\* The attributes __init__ sets from the groups c.
ScienceInstance(path, c, dd) ==
    [cls |-> "ScienceFilePath",
     filename |-> path,
     data_dir |-> dd,
     mission |-> c.mission,
     instrument |-> c.instrument,
     data_level |-> c.data_level,
     descriptor |-> c.descriptor,
     start_date |-> c.start_date,
     repointing |-> c.repointing,
     version |-> c.version,
     extension |-> c.extension]

\* The end of __init__: raise when validate_filename returned a message.
ScienceRaiseOrReturn(self, error_message) ==
    IF error_message # <<>>
    THEN Raise("InvalidScienceFileError", error_message)
    ELSE Return(self)

ScienceValidated(self) == ScienceRaiseOrReturn(self, ScienceValidate(self))

\* __init__ after extract_filename_components: its InvalidScienceFileError
\* is no ValueError, so it leaves __init__ as it is.
ScienceInit(path, split, dd) ==
    IF IsNone(split)
    THEN Raise("InvalidScienceFileError", <<"does not match expected pattern">>)
    ELSE ScienceValidated(ScienceInstance(path, Get(split), dd))

\* ScienceFilePath(filename), with config["DATA_DIR"] = dd.
ScienceFilePath(filename, dd) ==
    ScienceInit(PathOf(filename), ScienceExtract(PathOf(filename)), dd)

\* The filename generate_from_inputs builds. repointing is None or Some(n).
ScienceGenerateFilename(instrument, data_level, descriptor, start_time, version, repointing) ==
    LET extension == IF data_level = "l0" THEN "pkts" ELSE "cdf"
        time_field ==
            \* "if repointing:" is false for None and for 0
            IF PyTruthyInt(repointing)
            THEN start_time \o "-repoint" \o Format05d(Get(repointing))
            ELSE start_time
    IN  "imap_" \o instrument \o "_" \o data_level \o "_" \o descriptor \o "_"
        \o time_field \o "_" \o version \o "." \o extension

\* ScienceFilePath.generate_from_inputs(...)
ScienceGenerateFromInputs(instrument, data_level, descriptor, start_time, version, repointing, dd) ==
    ScienceFilePath(ScienceGenerateFilename(instrument, data_level, descriptor,
                                            start_time, version, repointing), dd)

\* data_dir / upload_path when data_dir is truthy, else upload_path.
PrependDataDir(dd, upload_path) ==
    IF ~Truthy(dd) THEN upload_path
    ELSE IF dd.type = "Path" THEN PathJoin(dd.path, upload_path)
    ELSE PathJoin(PathOf(dd.s), upload_path)

\* ScienceFilePath.construct_path(self)
ScienceConstructPath(self) ==
    Return(PrependDataDir(self.data_dir,
        PathOf(self.mission \o "/" \o self.instrument \o "/" \o self.data_level
               \o "/" \o Slice(self.start_date, 0, 4)
               \o "/" \o Slice(self.start_date, 4, 6)
               \o "/" \o PathStr(self.filename))))

---------------------------------------------------------------------------
(* SPICEFilePath                                                           *)

SPICE_DIR_MAPPING ==
    (".bc" :> "ck") @@ (".bpc" :> "pck") @@ (".bsp" :> "spk") @@ (".mk" :> "mk")
    @@ (".repoint.csv" :> "repoint") @@ (".sff" :> "activities")
    @@ (".spin.csv" :> "spin") @@ (".tf" :> "fk") @@ (".tls" :> "lsk")
    @@ (".tm" :> "mk") @@ (".tpc" :> "pck") @@ (".tsc" :> "sclk")

\* self.file_extension: all the suffixes joined when the last one is
\* ".csv", the last suffix otherwise.
SPICEFileExtension(path) ==
    IF PathSuffix(path) = ".csv" THEN Join(PathSuffixes(path), "")
    ELSE PathSuffix(path)

\* The end of __init__: the extension must be a key of the mapping.
SPICEInit(path, file_extension) ==
    IF file_extension \notin DOMAIN SPICE_DIR_MAPPING
    THEN Raise("InvalidSPICEFileError", <<"Invalid SPICE file">>)
    ELSE Return([cls |-> "SPICEFilePath",
                 filename |-> path,
                 file_extension |-> file_extension])

\* SPICEFilePath(filename)
SPICEFilePath(filename) ==
    SPICEInit(PathOf(filename), SPICEFileExtension(PathOf(filename)))

\* SPICEFilePath.construct_path(self), with config["DATA_DIR"] = dd: the /
\* of a None or of a str with the str "spice" raises TypeError.
SPICEConstructPath(self, dd) ==
    IF dd.type # "Path"
    THEN Raise("TypeError", <<"unsupported operand type(s) for /">>)
    ELSE Return(PathJoin(PathJoin(PathJoin(dd.path, PathOf("spice")),
                                  PathOf(SPICE_DIR_MAPPING[self.file_extension])),
                         self.filename))

---------------------------------------------------------------------------
(* AncillaryFilePath                                                       *)

\* \d{8}(-\d{8})? against the whole of t.
MatchAncillaryTimeField(t) ==
    \/ IsNDigits(t, DateDigits)
    \/ /\ Len(t) = 2 * DateDigits + 1
       /\ AllDigits(Slice(t, 0, DateDigits))
       /\ Slice(t, DateDigits, DateDigits + 1) = "-"
       /\ AllDigits(SliceFrom(t, DateDigits + 1))

\* The extension alternatives of the ancillary pattern.
AncillaryPatternExtensions == {"cdf", "cvs", "json"}

\* An ancillary pattern whose optional end date is a field of its own,
\* "_"-separated like the others, instead of "-"-joined to the start date.
AncillaryGroups_UnderscoreEndDate(f) ==
    IF /\ Len(f) = 6
       /\ f[1] = "imap"
       /\ f[2] # "" /\ f[3] # ""
       /\ IsNDigits(f[4], DateDigits)
       /\ IsNDigits(f[5], DateDigits)
       /\ MatchVersionDotExtension(f[6], {"cdf", "cvs", "json"})
    THEN Some([mission |-> f[1],
               instrument |-> f[2],
               descriptor |-> f[3],
               start_date |-> f[4],
               end_date |-> Some(f[5]),
               version |-> Slice(f[6], 0, 1 + VersionDigits),
               extension |-> SliceFrom(f[6], 2 + VersionDigits)])
    ELSE IF /\ Len(f) = 5
            /\ f[1] = "imap"
            /\ f[2] # "" /\ f[3] # ""
            /\ IsNDigits(f[4], DateDigits)
            /\ MatchVersionDotExtension(f[5], {"cdf", "cvs", "json"})
    THEN Some([mission |-> f[1],
               instrument |-> f[2],
               descriptor |-> f[3],
               start_date |-> f[4],
               end_date |-> None,
               version |-> Slice(f[5], 0, 1 + VersionDigits),
               extension |-> SliceFrom(f[5], 2 + VersionDigits)])
    ELSE None

\* The groups of the ancillary pattern for the "_"-separated fields f of
\* the name, or None when the pattern does not match.
AncillaryGroups(f) ==
    IF /\ Len(f) = 5
       /\ f[1] = "imap"
       /\ f[2] # "" /\ f[3] # ""
       /\ MatchAncillaryTimeField(f[4])
       /\ MatchVersionDotExtension(f[5], AncillaryPatternExtensions)
    THEN Some([mission |-> f[1],
               instrument |-> f[2],
               descriptor |-> f[3],
               start_date |-> Slice(f[4], 0, DateDigits),
               end_date |->
                   IF Len(f[4]) > DateDigits
                   THEN Some(SliceFrom(f[4], DateDigits + 1))
                   ELSE None,
               version |-> Slice(f[5], 0, 1 + VersionDigits),
               extension |-> SliceFrom(f[5], 2 + VersionDigits)])
    ELSE None

\* AncillaryFilePath.extract_filename_components(filename) for a Path; None
\* stands for the InvalidAncillaryFileError of a name that does not match.
AncillaryExtract(filename) ==
    AncillaryGroups(Split(DollarTarget(PathName(filename)), "_"))

\* AncillaryFilePath.validate_filename(self)
AncillaryValidate(self) ==
    Entry(\E a \in {self.mission, self.instrument, self.descriptor,
                    self.version, self.extension} : a = "",
          "missing attribute")
    \o Entry(self.mission # "imap", "Invalid mission")
    \o Entry(self.instrument \notin VALID_INSTRUMENTS, "Invalid instrument")
    \o Entry(self.extension \notin VALID_ANCILLARY_FILE_EXTENSION,
             "Invalid extension")
    \o Entry(~is_valid_date(self.start_date), "Invalid start date format")
    \o Entry(~IsNone(self.end_date) /\ Get(self.end_date) # ""
             /\ ~is_valid_date(Get(self.end_date)),
             "Invalid end date format")

\* The attributes __init__ sets from the groups c.
AncillaryInstance(path, c, dd) ==
    [cls |-> "AncillaryFilePath",
     filename |-> path,
     data_dir |-> dd,
     mission |-> c.mission,
     instrument |-> c.instrument,
     descriptor |-> c.descriptor,
     start_date |-> c.start_date,
     end_date |-> c.end_date,
     version |-> c.version,
     extension |-> c.extension]

AncillaryRaiseOrReturn(self, error_message) ==
    IF error_message # <<>>
    THEN Raise("InvalidAncillaryFileError", error_message)
    ELSE Return(self)

AncillaryValidated(self) == AncillaryRaiseOrReturn(self, AncillaryValidate(self))

AncillaryInit(path, split, dd) ==
    IF IsNone(split)
    THEN Raise("InvalidAncillaryFileError", <<"does not match expected pattern">>)
    ELSE AncillaryValidated(AncillaryInstance(path, Get(split), dd))

\* AncillaryFilePath(filename), with config["DATA_DIR"] = dd.
AncillaryFilePath(filename, dd) ==
    AncillaryInit(PathOf(filename), AncillaryExtract(PathOf(filename)), dd)

\* AncillaryFilePath.construct_path(self)
AncillaryConstructPath(self) ==
    Return(PrependDataDir(self.data_dir,
        PathOf(self.mission \o "/ancillary/" \o self.instrument
               \o "/" \o PathStr(self.filename))))

---------------------------------------------------------------------------
(* generate_imap_file_path                                                 *)

\* The nested try/except over the outcomes of the three constructors: SPICE
\* first; on InvalidSPICEFileError Science; on InvalidScienceFileError
\* Ancillary; on InvalidAncillaryFileError a ValueError naming the filename,
\* raised from that error.
FirstAccepted(filename, spice, science, ancillary) ==
    IF Returned(spice) THEN spice
    ELSE IF Returned(science) THEN science
    ELSE IF Returned(ancillary) THEN ancillary
    ELSE [kind |-> "raise", exc |-> "ValueError",
          message |-> <<"Invalid file type for", filename,
                        "It does not match Spice, Science or Ancillary file formats">>,
          cause |-> ancillary.exc]

\* A classifier that stops after Science, never trying Ancillary.
generate_imap_file_path_NoAncillary(filename, dd) ==
    FirstAccepted(filename, SPICEFilePath(filename), ScienceFilePath(filename, dd),
                  Raise("InvalidAncillaryFileError", <<>>))

generate_imap_file_path(filename, dd) ==
    FirstAccepted(filename, SPICEFilePath(filename),
                  ScienceFilePath(filename, dd), AncillaryFilePath(filename, dd))

---------------------------------------------------------------------------
(* Inputs                                                                  *)

\* The values of config["DATA_DIR"] a process may run with.
DataDirs == {DataDirNone, DataDirEmpty, DataDirPath("/data")}

Filenames ==
    { \* science names that validate
      "imap_mag_l1a_burst-magi_20240312_v000.cdf",
      "imap_mag_l0_raw_20240312_v001.pkts",
      "imap_swe_l2_sci_20240229-repoint00000_v999.cdf",
      "imap_hit_l1b_x_20231231-repoint00012_v010.cdf",
      "sub/imap_mag_l1a_x_20240312_v001.cdf",
      "/abs/imap_mag_l1a_x_20240312_v001.cdf",
      "imap_mag_l1a_x_20240312_v001.cdf\n",
      \* science names that match the pattern and violate constraints
      "imap_xxx_l9_d_20240230_v001.pkts",
      "imap_mag_l0_raw_20240312_v001.cdf",
      "imap_mag_l1a_x_20241301_v001.cdf",
      "imap_mag_l9_x_20240312_v001.cdf",
      "imap_mag_l1b-cal_20250103_20250104_v002.cdf",
      "imap_mag_l1a_20250103_20250104_v002.cdf",
      "imap_ultra_l1c_45sensor-pset_20240312_v000.cdf",
      \* names of six fields that do not match the science pattern
      "imap_mag_l1a_x_2024031_v001.cdf",
      "imap_mag_l1a_x_20240312_v01.cdf",
      "imap_mag_l1a_x_20240312-repoint123_v001.cdf",
      "imap_mag_l1a_x_20240312_v001.txt",
      "IMAP_mag_l1a_x_20240312_v001.cdf",
      "imap_mag_l1a__20240312_v001.cdf",
      \* ancillary names that validate
      "imap_mag_l1b-cal_20250101_v001.cdf",
      "imap_mag_l1b-cal_20250103-20250104_v002.cdf",
      "dir/imap_swe_cal_20250101_v001.cdf",
      "imap_mag_l1a_20250103-20250104_v002.cdf",
      "a.bc/imap_mag_cal_20250101_v001.cdf",
      \* ancillary names that match the pattern and violate constraints
      "imap_mag_cal_20250101_v001.json",
      "imap_mag_cal_20250101_v001.cvs",
      "imap_xx_cal_20250230-20250231_v001.json",
      "imap_mag_cal_20250101-20250230_v001.cdf",
      \* names of five fields that do not match the ancillary pattern
      "imap_mag_cal_20250101_v001.csv",
      "imap_mag_cal_20250101-2025010_v001.cdf",
      \* SPICE kernels, and names close to them
      "naif0012.tls", "imap_2025_032_01.bc", "a.b.bc", "dir/a.tf", "/abs/a.tm",
      "x.spin.csv", "x.repoint.csv", "x.001.spin.csv", "imap_2025.032.repoint.csv",
      ".bc", "a.bc.", "a.csv", ".spin.csv", "a.BC", "a.ti",
      \* others
      "nothing", "" }

GenInstruments == {"mag", "swe", "xxx"}
GenDataLevels == {"l0", "l1a", "l9"}
GenDescriptors == {"burst-magi", "a_b"}
GenStartTimes == {"20240312", "20240230"}
GenVersions == {"v001", "v12"}
GenRepointings ==
    {None} \cup {Some(n) : n \in 0..MaxRepointing} \cup {Some(99999), Some(100000)}

DateStrings ==
    { "20240312", "20240230", "20240229", "20230229", "19000229", "20000229",
      "20241231", "20240431", "20241301", "20240001", "20240100", "00000101",
      "00010101", "2024312", "202431", "2024111", "20241 5", "2024 312",
      "2024031", "202403121", "2024-03-12", "2024031a", "abcdefgh", "" }

VersionStrings ==
    { "latest", "v000", "v001", "v123", "v999", "v12", "1v23", "v1234", "v12a",
      "V123", "v", "123", "latest ", "Latest", "v123\n", "" }

---------------------------------------------------------------------------
(* The state machine: a caller makes one call at a time                    *)

NoCall == [op |-> "none", args |-> <<>>]
NoOutcome == [kind |-> "none"]

Init ==
    /\ data_dir \in DataDirs
    /\ pc = "idle"
    /\ call = NoCall
    /\ outcome = NoOutcome
    /\ collection = <<>>
    /\ files = <<>>
    /\ sent = <<>>

\* Each call is made from the idle state and leaves its outcome.

\* generate_imap_file_path(fn)
CallGenerateImapFilePath ==
    \E fn \in Filenames :
        /\ pc = "idle"
        /\ pc' = "done"
        /\ call' = [op |-> "generate_imap_file_path", args |-> <<fn>>]
        /\ outcome' = generate_imap_file_path(fn, data_dir)
        /\ UNCHANGED <<data_dir, collection, files, sent>>

\* ScienceFilePath(fn)
CallScienceFilePath ==
    \E fn \in Filenames :
        /\ pc = "idle"
        /\ pc' = "done"
        /\ call' = [op |-> "ScienceFilePath", args |-> <<fn>>]
        /\ outcome' = ScienceFilePath(fn, data_dir)
        /\ UNCHANGED <<data_dir, collection, files, sent>>

\* AncillaryFilePath(fn)
CallAncillaryFilePath ==
    \E fn \in Filenames :
        /\ pc = "idle"
        /\ pc' = "done"
        /\ call' = [op |-> "AncillaryFilePath", args |-> <<fn>>]
        /\ outcome' = AncillaryFilePath(fn, data_dir)
        /\ UNCHANGED <<data_dir, collection, files, sent>>

\* SPICEFilePath(fn)
CallSPICEFilePath ==
    \E fn \in Filenames :
        /\ pc = "idle"
        /\ pc' = "done"
        /\ call' = [op |-> "SPICEFilePath", args |-> <<fn>>]
        /\ outcome' = SPICEFilePath(fn)
        /\ UNCHANGED <<data_dir, collection, files, sent>>

\* ScienceFilePath.generate_from_inputs(i, l, d, t, v, repointing=r)
CallScienceGenerateFromInputs ==
    \E i \in GenInstruments, l \in GenDataLevels, d \in GenDescriptors,
       t \in GenStartTimes, v \in GenVersions, r \in GenRepointings :
        /\ pc = "idle"
        /\ pc' = "done"
        /\ call' = [op |-> "ScienceFilePath.generate_from_inputs",
                    args |-> <<i, l, d, t, v, r>>]
        /\ outcome' = ScienceGenerateFromInputs(i, l, d, t, v, r, data_dir)
        /\ UNCHANGED <<data_dir, collection, files, sent>>

\* ImapFilePath.is_valid_date(s)
CallIsValidDate ==
    \E s \in DateStrings :
        /\ pc = "idle"
        /\ pc' = "done"
        /\ call' = [op |-> "is_valid_date", args |-> <<s>>]
        /\ outcome' = Return(is_valid_date(s))
        /\ UNCHANGED <<data_dir, collection, files, sent>>

\* ImapFilePath.is_valid_version(s)
CallIsValidVersion ==
    \E s \in VersionStrings :
        /\ pc = "idle"
        /\ pc' = "done"
        /\ call' = [op |-> "is_valid_version", args |-> <<s>>]
        /\ outcome' = Return(is_valid_version(s))
        /\ UNCHANGED <<data_dir, collection, files, sent>>

\* AncillaryFilePath.extract_filename_components(fn) for a str: the pattern
\* is matched against the whole of fn.
AncillaryExtractStr(fn) == AncillaryGroups(Split(DollarTarget(fn), "_"))

ExtractOutcome(groups) ==
    IF IsNone(groups)
    THEN Raise("InvalidAncillaryFileError", <<"does not match expected pattern">>)
    ELSE Return(Get(groups))

CallAncillaryExtract ==
    \E fn \in Filenames :
        /\ pc = "idle"
        /\ pc' = "done"
        /\ call' = [op |-> "AncillaryFilePath.extract_filename_components",
                    args |-> <<fn>>]
        /\ outcome' = ExtractOutcome(AncillaryExtractStr(fn))
        /\ UNCHANGED <<data_dir, collection, files, sent>>

\* The instance a constructor call has just returned.
IsInstance(o) ==
    /\ Returned(o)
    /\ call.op \in {"generate_imap_file_path", "ScienceFilePath",
                    "AncillaryFilePath", "SPICEFilePath",
                    "ScienceFilePath.generate_from_inputs"}

\* self.construct_path(), dispatched on the class of self.
construct_path(self, dd) ==
    CASE self.cls = "ScienceFilePath" -> ScienceConstructPath(self)
      [] self.cls = "AncillaryFilePath" -> AncillaryConstructPath(self)
      [] self.cls = "SPICEFilePath" -> SPICEConstructPath(self, dd)

\* construct_path() on the instance just constructed.
CallConstructPath ==
    /\ pc = "done"
    /\ IsInstance(outcome)
    /\ call' = [op |-> "construct_path", args |-> <<outcome.value>>]
    /\ outcome' = construct_path(outcome.value, data_dir)
    /\ UNCHANGED <<pc, data_dir, collection, files, sent>>

\* The caller takes the outcome and is ready for its next call.
Done ==
    /\ pc = "done"
    /\ pc' = "idle"
    /\ call' = NoCall
    /\ outcome' = NoOutcome
    /\ sent' = <<>>
    /\ UNCHANGED <<data_dir, collection, files>>

Next ==
    \/ CallGenerateImapFilePath
    \/ CallScienceFilePath
    \/ CallAncillaryFilePath
    \/ CallSPICEFilePath
    \/ CallAncillaryExtract
    \/ CallScienceGenerateFromInputs
    \/ CallIsValidDate
    \/ CallIsValidVersion
    \/ CallConstructPath
    \/ Done

Spec == Init /\ [][Next]_vars

---------------------------------------------------------------------------
(* ProcessingInput and ProcessingInputCollection (processing_input.py).    *)
(* A ProcessingInput groups the filenames of one dependency with their     *)
(* validated records; the collection is the ordered list of them. The      *)
(* SPICE subtype is left out: it holds no descriptor and no dates.         *)

\* sub in s, Python's substring test.
Contains(s, sub) ==
    \E i \in 0..(Len(s) - Len(sub)) : Slice(s, i, i + Len(sub)) = sub

\* The class of the records a subtype holds.
FamilyClass(input_type) ==
    CASE input_type = "SCIENCE_FILE" -> "ScienceFilePath"
      [] input_type = "ANCILLARY_FILE" -> "AncillaryFilePath"

\* The data_type tag: the data level of a science record, else "ancillary".
RecordDataType(r) ==
    IF r.cls = "ScienceFilePath" THEN r.data_level ELSE "ancillary"

\* The records are of the subtype's family and agree on the instrument, on
\* the descriptor and (science) on the data level.
SameSource(input_type, recs) ==
    /\ \A i \in 1..Len(recs) : recs[i].cls = FamilyClass(input_type)
    /\ \A i \in 1..Len(recs) :
          /\ recs[i].instrument = recs[1].instrument
          /\ recs[i].descriptor = recs[1].descriptor
          /\ RecordDataType(recs[i]) = RecordDataType(recs[1])

\* The attributes of a ProcessingInput over the records recs.
ProcessingInputInstance(input_type, filenames, recs) ==
    [cls |-> "ProcessingInput",
     input_type |-> input_type,
     filename_list |-> filenames,
     imap_file_paths |-> recs,
     source |-> recs[1].instrument,
     descriptor |-> recs[1].descriptor,
     data_type |-> RecordDataType(recs[1])]

\* A grouping check that compares the family, the instrument and the data
\* level of the members and forgets their descriptor.
ProcessingInputGrouped_NoDescriptor(input_type, filenames, recs) ==
    IF /\ \A i \in 1..Len(recs) : recs[i].cls = FamilyClass(input_type)
       /\ \A i \in 1..Len(recs) :
             /\ recs[i].instrument = recs[1].instrument
             /\ RecordDataType(recs[i]) = RecordDataType(recs[1])
    THEN Return(ProcessingInputInstance(input_type, filenames, recs))
    ELSE Raise("ValueError", <<"All inputs must come from the same source">>)

\* The grouping check on the records of all the members.
ProcessingInputGrouped(input_type, filenames, recs) ==
    IF SameSource(input_type, recs)
    THEN Return(ProcessingInputInstance(input_type, filenames, recs))
    ELSE Raise("ValueError", <<"All inputs must come from the same source">>)

\* The constructor after classification: outs are the outcomes of
\* generate_imap_file_path for the filenames, in order; the first failure
\* leaves the constructor.
ProcessingInputInit(input_type, filenames, outs) ==
    IF \E i \in 1..Len(outs) : Raised(outs[i])
    THEN outs[SetMin({i \in 1..Len(outs) : Raised(outs[i])})]
    ELSE ProcessingInputGrouped(input_type, filenames,
                                [i \in 1..Len(outs) |-> outs[i].value])

ProcessingInput(input_type, filenames, dd) ==
    ProcessingInputInit(input_type, filenames,
        [i \in 1..Len(filenames) |-> generate_imap_file_path(filenames[i], dd)])

\* ScienceInput(*filenames), AncillaryInput(*filenames)
ScienceInput(filenames, dd) == ProcessingInput("SCIENCE_FILE", filenames, dd)

AncillaryInput(filenames, dd) == ProcessingInput("ANCILLARY_FILE", filenames, dd)

\* datetime.strptime(s, "%Y%m%d") of a date of a validated record.
DateTime(s) ==
    [year |-> ToInt(Slice(s, 0, 4)),
     month |-> ToInt(Slice(s, 4, 6)),
     day |-> ToInt(Slice(s, 6, 8))]

\* a < b on datetimes.
DateTimeLess(a, b) ==
    \/ a.year < b.year
    \/ a.year = b.year /\ a.month < b.month
    \/ a.year = b.year /\ a.month = b.month /\ a.day < b.day

\* The end of the validity of a record: its end_date when it has one, else
\* its start_date.
EffectiveEnd(r) ==
    IF r.cls = "AncillaryFilePath" /\ ~IsNone(r.end_date)
    THEN DateTime(Get(r.end_date))
    ELSE DateTime(r.start_date)

\* min() and max() of a list of datetimes, scanned from the left.
RECURSIVE Earliest(_, _, _)
Earliest(dates, i, best) ==
    IF i > Len(dates) THEN best
    ELSE Earliest(dates, i + 1,
                  IF DateTimeLess(dates[i], best) THEN dates[i] ELSE best)

RECURSIVE Latest(_, _, _)
Latest(dates, i, best) ==
    IF i > Len(dates) THEN best
    ELSE Latest(dates, i + 1,
                IF DateTimeLess(best, dates[i]) THEN dates[i] ELSE best)

\* A time range whose end looks at the start dates only.
TimeRange_StartDatesOnly(starts, ends) ==
    <<Earliest(starts, 2, starts[1]), Latest(starts, 2, starts[1])>>

TimeRange(starts, ends) ==
    <<Earliest(starts, 2, starts[1]), Latest(ends, 2, ends[1])>>

\* ProcessingInput.get_time_range(self)
get_time_range(self) ==
    TimeRange([i \in 1..Len(self.imap_file_paths) |->
                   DateTime(self.imap_file_paths[i].start_date)],
              [i \in 1..Len(self.imap_file_paths) |->
                   EffectiveEnd(self.imap_file_paths[i])])

\* ProcessingInputCollection.add(*processing_inputs)
CollectionAdd(coll, processing_inputs) == coll \o processing_inputs

\* ProcessingInputCollection.serialize(self): for each entry, in order, its
\* data_type tag and its filenames.
SerializeEntry(e) == [type |-> e.data_type, files |-> e.filename_list]

serialize(coll) == [i \in 1..Len(coll) |-> SerializeEntry(coll[i])]

\* A dispatch that reconstructs every entry as a ScienceInput, whatever its
\* tag.
DeserializeEntry_AlwaysScience(p, dd) == ScienceInput(p.files, dd)

\* The subtype an encoded entry is reconstructed as, by its tag.
DeserializeEntry(p, dd) ==
    IF p.type = "ancillary" THEN AncillaryInput(p.files, dd)
    ELSE ScienceInput(p.files, dd)

\* A deserialize that starts from an emptied list.
Deserialized_Replace(coll, outs) ==
    IF \E i \in 1..Len(outs) : Raised(outs[i])
    THEN [outcome |-> outs[SetMin({i \in 1..Len(outs) : Raised(outs[i])})],
          collection |-> coll]
    ELSE [outcome |-> Return(None),
          collection |-> [i \in 1..Len(outs) |-> outs[i].value]]

\* The collection after the reconstructed entries outs: they are appended
\* when all were reconstructed.
Deserialized(coll, outs) ==
    IF \E i \in 1..Len(outs) : Raised(outs[i])
    THEN [outcome |-> outs[SetMin({i \in 1..Len(outs) : Raised(outs[i])})],
          collection |-> coll]
    ELSE [outcome |-> Return(None),
          collection |-> coll \o [i \in 1..Len(outs) |-> outs[i].value]]

\* ProcessingInputCollection.deserialize(self, payload)
deserialize(coll, payload, dd) ==
    Deserialized(coll, [i \in 1..Len(payload) |-> DeserializeEntry(payload[i], dd)])

\* An entry passes the filters that are given: its source is the source,
\* its descriptor contains the descriptor.
EntrySelected_ExactDescriptor(e, source, descriptor) ==
    /\ IsNone(source) \/ e.source = Get(source)
    /\ IsNone(descriptor) \/ e.descriptor = Get(descriptor)

EntrySelected(e, source, descriptor) ==
    /\ IsNone(source) \/ e.source = Get(source)
    /\ IsNone(descriptor) \/ Contains(e.descriptor, Get(descriptor))

\* The constructed paths of the members of an entry, in order.
EntryPaths(e, dd) ==
    [i \in 1..Len(e.imap_file_paths) |->
        construct_path(e.imap_file_paths[i], dd).value]

\* The concatenation of a list of lists.
RECURSIVE Flatten(_)
Flatten(lists) ==
    IF lists = <<>> THEN <<>> ELSE Head(lists) \o Flatten(Tail(lists))

\* ProcessingInputCollection.get_file_paths(self, source, descriptor)
get_file_paths(coll, source, descriptor, dd) ==
    Flatten([i \in 1..Len(coll) |->
                IF EntrySelected(coll[i], source, descriptor)
                THEN EntryPaths(coll[i], dd)
                ELSE <<>>])

---------------------------------------------------------------------------
(* io.py: _make_request, download, query and upload. The archive server    *)
(* answers a request that is sent with a response, with an HTTP error      *)
(* status, or not at all.                                                  *)

\* config["DATA_ACCESS_URL"] and config["API_KEY"]
DATA_ACCESS_URL == "https://api.imap-mission.com"

API_KEY == None

\* What session.send and raise_for_status make of a request: a response of
\* status 2xx with its body, an HTTPError raised by raise_for_status, or a
\* ConnectionError (a RequestException) raised by session.send.
OkResponse(body) == [status |-> "ok", body |-> body]

FailedResponses == {[status |-> "HTTPError"], [status |-> "ConnectionError"]}

\* A _make_request that lets the exception of the library through.
_make_request_Unwrapped(response) ==
    IF response.status = "ok" THEN Return(response)
    ELSE [kind |-> "raise", exc |-> response.status,
          message |-> <<response.status>>, cause |-> "none"]

\* with _make_request(request) as response: the response the body of the
\* with statement runs on, or the IMAPDataAccessError raised from the
\* HTTPError or RequestException.
_make_request(response) ==
    IF response.status = "ok" THEN Return(response)
    ELSE [kind |-> "raise", exc |-> "IMAPDataAccessError",
          message |-> <<response.status>>, cause |-> response.status]

\* A request that was sent, with what came of it.
Request(method, url, with, response) ==
    [method |-> method, url |-> url, with |-> with, result |-> response]

\* The local file system is a function from the paths that exist to their
\* contents; the content of a directory is "dir".
Exists(fs, path) == PathStr(path) \in DOMAIN fs

\* The directories above a path, the parent included.
Ancestors(path) ==
    {[root |-> path.root, parts |-> SubSeq(path.parts, 1, n)] :
        n \in 1..(Len(path.parts) - 1)}

\* path.parent.mkdir(parents=True, exist_ok=True)
MkdirParents(fs, path) ==
    fs @@ [p \in {PathStr(a) : a \in Ancestors(path)} |-> "dir"]

\* path.write_bytes(content)
WriteBytes(fs, path, content) == (PathStr(path) :> content) @@ fs

\* Path(config["DATA_DIR"]) for a str or a Path.
DataDirAsPath(dd) == IF dd.type = "Path" THEN dd.path ELSE PathOf(dd.s)

\* path.relative_to(other): None stands for its ValueError.
RelativeTo(path, other) ==
    IF /\ path.root = other.root
       /\ Len(other.parts) <= Len(path.parts)
       /\ SubSeq(path.parts, 1, Len(other.parts)) = other.parts
    THEN Some([root |-> "",
               parts |-> SubSeq(path.parts, Len(other.parts) + 1, Len(path.parts))])
    ELSE None

\* What a call does: its outcome, the file system it leaves and the
\* requests it sent.
Effect(o, fs, requests) == [outcome |-> o, files |-> fs, sent |-> requests]

\* A download that makes the directories before it sends the request.
DownloadFetch_MkdirFirst(fs, destination, url, response, got) ==
    IF Returned(got)
    THEN Effect(Return(destination),
                WriteBytes(MkdirParents(fs, destination), destination, response.body),
                <<Request("GET", url, <<>>, response)>>)
    ELSE Effect(got, MkdirParents(fs, destination),
                <<Request("GET", url, <<>>, response)>>)

\* The with block of download: on a response, the directories are made and
\* the content is written; got is _make_request(response).
DownloadFetch(fs, destination, url, response, got) ==
    IF Returned(got)
    THEN Effect(Return(destination),
                WriteBytes(MkdirParents(fs, destination), destination, response.body),
                <<Request("GET", url, <<>>, response)>>)
    ELSE Effect(got, fs, <<Request("GET", url, <<>>, response)>>)

\* download from "if destination.exists()" on; file_path is the result of
\* relative_to.
DownloadFrom(fs, destination, file_path, response) ==
    IF IsNone(file_path)
    THEN Effect(Raise("ValueError", <<"is not in the subpath of">>), fs, <<>>)
    ELSE IF Exists(fs, destination)
    THEN Effect(Return(destination), fs, <<>>)
    ELSE DownloadFetch(fs, destination,
                       DATA_ACCESS_URL \o "/download/" \o PathStr(Get(file_path)),
                       response, _make_request(response))

\* download from relative_to on; destination is the outcome of
\* construct_path. relative_to(None) raises TypeError.
DownloadTo(fs, dd, destination, response) ==
    IF Raised(destination) THEN Effect(destination, fs, <<>>)
    ELSE IF dd.type = "NoneType"
    THEN Effect(Raise("TypeError",
                      <<"expected str, bytes or os.PathLike object, not NoneType">>),
                fs, <<>>)
    ELSE DownloadFrom(fs, destination.value,
                      RelativeTo(destination.value, DataDirAsPath(dd)), response)

\* download from construct_path on; path_obj is the outcome of
\* generate_imap_file_path.
DownloadClassified(fs, dd, path_obj, response) ==
    IF Raised(path_obj) THEN Effect(path_obj, fs, <<>>)
    ELSE DownloadTo(fs, dd, construct_path(path_obj.value, dd), response)

\* download(file_path), with config["DATA_DIR"] = dd, on the file system fs,
\* when the server answers a request with response.
download(file_path, dd, fs, response) ==
    DownloadClassified(fs, dd,
        generate_imap_file_path(PathName(PathOf(file_path)), dd), response)

\* ScienceFilePath.is_valid_repointing(input_repointing)
is_valid_repointing(input_repointing) ==
    /\ StartsWith(input_repointing, "repoint")
    /\ IsNDigits(SliceFrom(input_repointing, 7), RepointDigits)

\* The keyword parameters of query, in the order of its signature.
QueryParameters ==
    <<"instrument", "data_level", "descriptor", "start_date", "end_date",
      "repointing", "version", "extension">>

\* query_params: the parameters that are not None, without version when it
\* is "latest".
QueryParams(p) ==
    LET keys == {k \in DOMAIN p : ~IsNone(p[k])}
                \ (IF p.version = Some("latest") THEN {"version"} ELSE {})
    IN  [k \in keys |-> Get(p[k])]

\* The checks of the parameters, in their order: the message of the first
\* that fails, or None.
QueryInvalid(p) ==
    IF ~IsNone(p.instrument) /\ Get(p.instrument) \notin VALID_INSTRUMENTS
    THEN Some("Not a valid instrument, please choose from")
    ELSE IF ~IsNone(p.data_level) /\ Get(p.data_level) \notin VALID_DATALEVELS
    THEN Some("Not a valid data level, choose from")
    ELSE IF ~IsNone(p.start_date) /\ ~is_valid_date(Get(p.start_date))
    THEN Some("Not a valid start date, use format 'YYYYMMDD'.")
    ELSE IF ~IsNone(p.end_date) /\ ~is_valid_date(Get(p.end_date))
    THEN Some("Not a valid end date, use format 'YYYYMMDD'.")
    ELSE IF ~IsNone(p.version) /\ ~IsTrue(is_valid_version(Get(p.version)))
    THEN Some("Not a valid version, use format 'vXXX'.")
    ELSE IF ~IsNone(p.repointing) /\ ~is_valid_repointing(Get(p.repointing))
    THEN Some("Not a valid repointing, use format repoint<num>")
    ELSE IF ~IsNone(p.extension) /\ Get(p.extension) \notin VALID_FILE_EXTENSION
    THEN Some("Not a valid extension, choose from ('pkts', 'cdf').")
    ELSE None

\* int(each_dict["version"][1:4])
VersionNumber(each_dict) == ToInt(Slice(each_dict.version, 1, 4))

\* max() of the version numbers of a nonempty list.
MaxVersion(items) == SetMax({VersionNumber(items[i]) : i \in 1..Len(items)})

\* A filter that returns the first item of the largest version only.
LatestItems_FirstOnly(version, items) ==
    IF version = Some("latest") /\ items # <<>>
    THEN LET max_version == MaxVersion(items)
         IN  <<items[SetMin({i \in 1..Len(items) :
                              VersionNumber(items[i]) = max_version})]>>
    ELSE items

\* The end of query: with version "latest" and a nonempty list, the items
\* of the largest version number.
LatestItems(version, items) ==
    IF version = Some("latest") /\ items # <<>>
    THEN LET max_version == MaxVersion(items)
         IN  SelectSeq(items, LAMBDA each_dict : VersionNumber(each_dict) = max_version)
    ELSE items

\* query after the request; got is _make_request(response).
QueryReceived(p, requests, got) ==
    IF Raised(got) THEN [outcome |-> got, sent |-> requests]
    ELSE [outcome |-> Return(LatestItems(p.version, got.value.body)),
          sent |-> requests]

\* query after the checks of the parameters.
QuerySend(p, response) ==
    QueryReceived(p, <<Request("GET", DATA_ACCESS_URL \o "/query", QueryParams(p),
                               response)>>,
                  _make_request(response))

\* query after the two checks that a parameter is given; invalid is
\* QueryInvalid(p).
QueryChecked(p, invalid, response) ==
    IF ~IsNone(invalid)
    THEN [outcome |-> Raise("ValueError", <<Get(invalid)>>), sent |-> <<>>]
    ELSE QuerySend(p, response)

\* A query that lets version "latest" stand for a parameter.
query_LatestCounts(p, response) ==
    IF \A k \in DOMAIN p : IsNone(p[k])
    THEN [outcome |-> Raise("ValueError",
                            <<"At least one query parameter must be provided.">>),
          sent |-> <<>>]
    ELSE QueryChecked(p, QueryInvalid(p), response)

\* query(**p), when the server answers the request with response.
query(p, response) ==
    IF p.version = Some("latest") /\ DOMAIN QueryParams(p) = {}
    THEN [outcome |-> Raise("ValueError",
                            <<"One other parameter must be run with 'version'">>),
          sent |-> <<>>]
    ELSE IF DOMAIN QueryParams(p) = {}
    THEN [outcome |-> Raise("ValueError",
                            <<"At least one query parameter must be provided.">>),
          sent |-> <<>>]
    ELSE QueryChecked(p, QueryInvalid(p), response)

\* headers of the first request of upload: api_key or config["API_KEY"].
UploadHeaders(api_key) ==
    IF ~IsNone(api_key) /\ Get(api_key) # "" THEN [X_api_key |-> Get(api_key)]
    ELSE IF ~IsNone(API_KEY) /\ Get(API_KEY) # "" THEN [X_api_key |-> Get(API_KEY)]
    ELSE <<>>

\* upload after the second request; got2 is its _make_request.
UploadDone(fs, requests, got2) ==
    IF Raised(got2) THEN Effect(got2, fs, requests)
    ELSE Effect(Return(None), fs, requests)

\* upload after the first request: the PUT of the contents of the file to
\* the presigned URL of the first response. got1 is _make_request(response1).
UploadPut(fs, file_path, first, response1, response2, got1) ==
    IF Raised(got1) THEN Effect(got1, fs, <<first>>)
    ELSE UploadDone(fs,
                    <<first, Request("PUT", response1.body,
                                     [data |-> fs[PathStr(file_path)]], response2)>>,
                    _make_request(response2))

\* upload from its first request on.
UploadGet(fs, file_path, api_key, response1, response2) ==
    UploadPut(fs, file_path,
              Request("GET", DATA_ACCESS_URL \o "/upload/" \o PathName(file_path),
                      UploadHeaders(api_key), response1),
              response1, response2, _make_request(response1))

\* upload(file_path, api_key=api_key) for an absolute file_path without
\* links, when the server answers the two requests with response1 and
\* response2.
upload(file_path, api_key, fs, response1, response2) ==
    IF ~Exists(fs, PathOf(file_path))
    THEN Effect(Raise("FileNotFoundError", <<file_path>>), fs, <<>>)
    ELSE UploadGet(fs, PathOf(file_path), api_key, response1, response2)

\* ProcessingInputCollection.download_all_files(self): download(path) for
\* the paths of get_file_paths(), one after the other; an exception of a
\* download ends it. fail is the path whose fetch, if one is made, is
\* answered with the response failure; the other fetches are answered with
\* content.
RECURSIVE DownloadEach(_, _, _, _, _, _)
DownloadEach(paths, i, dd, done, fail, failure) ==
    IF i > Len(paths) \/ Raised(done.outcome) THEN done
    ELSE LET one == download(PathStr(paths[i]), dd, done.files,
                             IF i = fail THEN failure ELSE OkResponse("archive"))
         IN  DownloadEach(paths, i + 1, dd,
                          Effect(IF Raised(one.outcome) THEN one.outcome
                                 ELSE Return(None),
                                 one.files, done.sent \o one.sent),
                          fail, failure)

download_all_files(coll, dd, fs, fail, failure) ==
    DownloadEach(get_file_paths(coll, None, None, dd), 1, dd,
                 Effect(Return(None), fs, <<>>), fail, failure)

---------------------------------------------------------------------------
(* The caller of the processing inputs: one call at a time on the inputs   *)
(* it constructs and on the one collection it holds                        *)

\* The collection holds at most MaxEntries entries.
MaxEntries == 3

\* The sequences without repetition of one or more elements of S.
Arrangements(S) ==
    {s \in UNION {[1..n -> S] : n \in 1..Cardinality(S)} :
        \A i, j \in 1..Len(s) : i # j => s[i] # s[j]}

\* The files of three dependencies: two science products of ultra and the
\* calibration files of mag, one of them open-ended.
Ultra45Files ==
    {"imap_ultra_l1c_45sensor-pset_20240312_v000.cdf",
     "imap_ultra_l1c_45sensor-pset_20240313_v000.cdf"}

Ultra90Files == {"imap_ultra_l1c_90sensor-pset_20240312_v000.cdf"}

MagCalFiles ==
    {"imap_mag_l1b-cal_20250101_v001.cdf",
     "imap_mag_l1b-cal_20250103-20250104_v002.cdf",
     "imap_mag_l1b-cal_20241230-20250102_v003.cdf"}

\* The argument lists the constructors are called with: the files of one
\* dependency in every order, and lists whose members disagree or do not
\* classify.
InputFilenameLists ==
    Arrangements(Ultra45Files) \cup Arrangements(Ultra90Files)
    \cup Arrangements(MagCalFiles)
    \cup { <<"imap_mag_l1a_burst-magi_20240312_v000.cdf",
             "imap_mag_l1a_norm-magi_20240312_v000.cdf">>,
           <<"imap_mag_l1b-cal_20250101_v001.cdf",
             "imap_mag_l1b-cal_20250103-20250104_v002.cdf",
             "imap_mag_l1a-cal_20250105_v003.cdf">>,
           <<"imap_mag_l1a_norm-magi_20240312_v000.cdf",
             "imap_mag_l1b_norm-magi_20240312_v000.cdf">>,
           <<"imap_mag_l1a_norm-magi_20240312_v000.cdf",
             "imap_hit_l1a_norm-magi_20240312_v000.cdf">>,
           <<"imap_mag_l1a_cal_20240312_v000.cdf",
             "imap_mag_cal_20240312_v000.cdf">>,
           <<"imap_mag_cal_20240312_v000.cdf",
             "imap_mag_l1a_cal_20240312_v000.cdf">>,
           <<"imap_mag_l1a_norm-magi_20240312_v000.cdf", "nothing">>,
           <<"imap_mag_l1b-cal_20250101_v001.cdf",
             "imap_mag_l1b-cal_20250103_20250104_v002.cdf">>,
           <<"sub/imap_mag_l1a_norm-magi_20240312_v000.cdf">>,
           <<"naif0012.tls">> }

\* The processing inputs a caller adds to its collection, for each value of
\* config["DATA_DIR"] they can be constructed under.
CollectionInputs ==
    [dd \in DataDirs |->
        { ScienceInput(<<"imap_ultra_l1c_45sensor-pset_20240312_v000.cdf",
                         "imap_ultra_l1c_45sensor-pset_20240313_v000.cdf">>, dd).value,
          ScienceInput(<<"imap_ultra_l1c_90sensor-pset_20240312_v000.cdf">>, dd).value,
          AncillaryInput(<<"imap_mag_l1b-cal_20250101_v001.cdf",
                           "imap_mag_l1b-cal_20250103-20250104_v002.cdf">>, dd).value }]

\* The lists of one or two of them, as the arguments of add and as the
\* entries of the collections whose serialization is deserialized.
CollectionInputLists ==
    [dd \in DataDirs |->
        {<<a>> : a \in CollectionInputs[dd]}
        \cup {<<a, b>> : a \in CollectionInputs[dd], b \in CollectionInputs[dd]}]

FilterSources == {None, Some("ultra"), Some("mag"), Some("hit")}

FilterDescriptors ==
    {None, Some("45se"), Some("sensor-pset"), Some("45sensor-pset"),
     Some("l1b-cal"), Some("cal-l1b")}

\* ScienceInput(*fl)
CallScienceInput ==
    \E fl \in InputFilenameLists :
        /\ pc = "idle"
        /\ pc' = "done"
        /\ call' = [op |-> "ScienceInput", args |-> fl]
        /\ outcome' = ScienceInput(fl, data_dir)
        /\ UNCHANGED <<data_dir, collection, files, sent>>

\* AncillaryInput(*fl)
CallAncillaryInput ==
    \E fl \in InputFilenameLists :
        /\ pc = "idle"
        /\ pc' = "done"
        /\ call' = [op |-> "AncillaryInput", args |-> fl]
        /\ outcome' = AncillaryInput(fl, data_dir)
        /\ UNCHANGED <<data_dir, collection, files, sent>>

\* get_time_range() on the processing input just constructed.
CallGetTimeRange ==
    /\ pc = "done"
    /\ call.op \in {"ScienceInput", "AncillaryInput"}
    /\ Returned(outcome)
    /\ call' = [op |-> "get_time_range", args |-> <<outcome.value>>]
    /\ outcome' = Return(get_time_range(outcome.value))
    /\ UNCHANGED <<pc, data_dir, collection, files, sent>>

\* collection.add(*inputs)
CallCollectionAdd ==
    \E inputs \in CollectionInputLists[data_dir] :
        /\ pc = "idle"
        /\ Len(collection) + Len(inputs) <= MaxEntries
        /\ pc' = "done"
        /\ call' = [op |-> "add", args |-> inputs]
        /\ collection' = CollectionAdd(collection, inputs)
        /\ outcome' = Return(None)
        /\ UNCHANGED <<data_dir, files, sent>>

\* collection.serialize()
CallSerialize ==
    /\ pc = "idle"
    /\ pc' = "done"
    /\ call' = [op |-> "serialize", args |-> <<>>]
    /\ outcome' = Return(serialize(collection))
    /\ UNCHANGED <<data_dir, collection, files, sent>>

\* collection.deserialize(other.serialize()) for another collection.
CallDeserialize ==
    \E other \in CollectionInputLists[data_dir] :
        /\ pc = "idle"
        /\ Len(collection) + Len(other) <= MaxEntries
        /\ pc' = "done"
        /\ call' = [op |-> "deserialize", args |-> <<serialize(other)>>]
        /\ LET after == deserialize(collection, serialize(other), data_dir)
           IN  /\ collection' = after.collection
               /\ outcome' = after.outcome
        /\ UNCHANGED <<data_dir, files, sent>>

\* ProcessingInputCollection().deserialize(payload) for the payload that
\* serialize() just returned: the outcome holds the new collection.
CallDeserializeIntoEmpty ==
    /\ pc = "done"
    /\ call.op = "serialize"
    /\ call' = [op |-> "deserialize into empty", args |-> <<outcome.value>>]
    /\ LET after == deserialize(<<>>, outcome.value, data_dir)
       IN  outcome' = IF Raised(after.outcome) THEN after.outcome
                      ELSE Return(after.collection)
    /\ UNCHANGED <<pc, data_dir, collection, files, sent>>

\* collection.get_file_paths(source, descriptor)
CallGetFilePaths ==
    \E source \in FilterSources, descriptor \in FilterDescriptors :
        /\ pc = "idle"
        /\ pc' = "done"
        /\ call' = [op |-> "get_file_paths", args |-> <<source, descriptor>>]
        /\ outcome' = Return(get_file_paths(collection, source, descriptor, data_dir))
        /\ UNCHANGED <<data_dir, collection, files, sent>>

\* A caller that constructs processing inputs and asks their time range.
NextProcessingInput ==
    \/ CallScienceInput
    \/ CallAncillaryInput
    \/ CallGetTimeRange
    \/ Done

SpecProcessingInput == Init /\ [][NextProcessingInput]_vars

\* A caller that fills, serializes and searches its collection.
NextCollection ==
    \/ CallCollectionAdd
    \/ CallSerialize
    \/ CallDeserialize
    \/ CallDeserializeIntoEmpty
    \/ CallGetFilePaths
    \/ Done

SpecCollection == Init /\ [][NextCollection]_vars

---------------------------------------------------------------------------
(* The caller of io.py and the archive server                              *)

\* A list the server returns holds at most MaxItems items.
MaxItems == 2

\* A query is given at most MaxFilters parameters.
MaxFilters == 2

\* The answers of the server to a download.
DownloadResponses == {OkResponse("archive")} \cup FailedResponses

\* The file arguments of a download: a science file, the same with a
\* directory, a SPICE kernel and a name of no grammar.
DownloadArgs ==
    {"imap_mag_l1a_norm-magi_20240312_v000.cdf",
     "some/dir/imap_mag_l1a_norm-magi_20240312_v000.cdf",
     "naif0012.tls",
     "imap_mag_l1a_norm-magi_v000.cdf"}

\* The files of the caller outside the archive.
LocalFiles == ("/home/imap_mag_l1a_norm-magi_20240312_v000.cdf" :> "local")

UploadArgs ==
    {"/home/imap_mag_l1a_norm-magi_20240312_v000.cdf",
     "/home/imap_mag_l1a_burst-magi_20240312_v000.cdf"}

ApiKeys == {None, Some("key")}

PresignedResponses == {OkResponse("https://s3.amazonaws.com/presigned")} \cup FailedResponses

PutResponses == {OkResponse("")} \cup FailedResponses

\* The items of the archive a query can return.
ArchiveItems ==
    {[file_path |-> "imap_mag_l1a_norm-magi_20240312_v001.cdf", version |-> "v001"],
     [file_path |-> "imap_mag_l1a_norm-magi_20240312_v002.cdf", version |-> "v002"],
     [file_path |-> "imap_mag_l1a_burst-magi_20240312_v002.cdf", version |-> "v002"]}

\* The lists of up to n different items.
RECURSIVE ItemLists(_)
ItemLists(n) ==
    IF n = 0 THEN {<<>>}
    ELSE ItemLists(n - 1)
         \cup {Append(l, d) : l \in {k \in ItemLists(n - 1) : Len(k) = n - 1},
                              d \in ArchiveItems}

QueryResponses ==
    {OkResponse(l) : l \in {k \in ItemLists(MaxItems) :
                               \A i, j \in 1..Len(k) : i # j => k[i] # k[j]}}
    \cup FailedResponses

\* The values a caller gives a parameter of query, None for not given.
QueryValues ==
    [instrument |-> {None, Some("mag"), Some("magx")},
     data_level |-> {None, Some("l1a"), Some("l9")},
     descriptor |-> {None, Some("burst")},
     start_date |-> {None, Some("20240312"), Some("2024-03-12"), Some("2024312")},
     end_date |-> {None, Some("20240313"), Some("20241313")},
     repointing |-> {None, Some("repoint00001"), Some("repoint1")},
     version |-> {None, Some("latest"), Some("v002"), Some("2")},
     extension |-> {None, Some("cdf"), Some("txt")}]

QueryArgs ==
    {p \in [instrument : QueryValues.instrument, data_level : QueryValues.data_level,
            descriptor : QueryValues.descriptor, start_date : QueryValues.start_date,
            end_date : QueryValues.end_date, repointing : QueryValues.repointing,
            version : QueryValues.version, extension : QueryValues.extension] :
        Cardinality({k \in DOMAIN p : ~IsNone(p[k])}) <= MaxFilters}

\* The path in the archive of a file of the name filename.
ArchivePath(filename, dd) ==
    construct_path(generate_imap_file_path(filename, dd).value, dd).value

\* The file systems a caller of io.py starts on: its own files and, or not,
\* a file of the archive downloaded before.
InitialFiles ==
    [dd \in DataDirs |->
        {LocalFiles,
         (PathStr(ArchivePath("imap_mag_l1a_norm-magi_20240312_v000.cdf", dd)) :> "old")
            @@ LocalFiles}]

\* The collections a caller of download_all_files holds.
BulkCollections == [dd \in DataDirs |-> {<<>>} \cup CollectionInputLists[dd]]

\* The file systems it starts on: empty, or with the first file of the
\* collection downloaded before.
BulkFiles(coll, dd) ==
    {<<>>} \cup {(PathStr(get_file_paths(coll, None, None, dd)[1]) :> "old") :
                    x \in {y \in {1} : coll # <<>>}}

InitIO ==
    /\ data_dir \in DataDirs
    /\ pc = "idle"
    /\ call = NoCall
    /\ outcome = NoOutcome
    /\ collection = <<>>
    /\ files \in InitialFiles[data_dir]
    /\ sent = <<>>

InitBulk ==
    /\ data_dir \in DataDirs
    /\ pc = "idle"
    /\ call = NoCall
    /\ outcome = NoOutcome
    /\ collection \in BulkCollections[data_dir]
    /\ files \in BulkFiles(collection, data_dir)
    /\ sent = <<>>

\* download(file_path)
CallDownload ==
    \E file_path \in DownloadArgs, response \in DownloadResponses :
        LET done == download(file_path, data_dir, files, response)
        IN  /\ pc = "idle"
            /\ pc' = "done"
            /\ call' = [op |-> "download", args |-> <<file_path>>]
            /\ outcome' = done.outcome
            /\ files' = done.files
            /\ sent' = done.sent
            /\ UNCHANGED <<data_dir, collection>>

\* download(path) for a path of collection.get_file_paths()
CallDownloadMember ==
    \E i \in 1..Len(get_file_paths(collection, None, None, data_dir)),
       response \in DownloadResponses :
        LET path == get_file_paths(collection, None, None, data_dir)[i]
            done == download(PathStr(path), data_dir, files, response)
        IN  /\ pc = "idle"
            /\ pc' = "done"
            /\ call' = [op |-> "download", args |-> <<PathStr(path)>>]
            /\ outcome' = done.outcome
            /\ files' = done.files
            /\ sent' = done.sent
            /\ UNCHANGED <<data_dir, collection>>

\* collection.download_all_files()
CallDownloadAllFiles ==
    \E fail \in 0..Len(get_file_paths(collection, None, None, data_dir)),
       failure \in FailedResponses :
        LET done == download_all_files(collection, data_dir, files, fail, failure)
        IN  /\ pc = "idle"
            /\ pc' = "done"
            /\ call' = [op |-> "download_all_files", args |-> <<>>]
            /\ outcome' = done.outcome
            /\ files' = done.files
            /\ sent' = done.sent
            /\ UNCHANGED <<data_dir, collection>>

\* query(**p)
CallQuery ==
    \E p \in QueryArgs, response \in QueryResponses :
        LET done == query(p, response)
        IN  /\ pc = "idle"
            /\ pc' = "done"
            /\ call' = [op |-> "query", args |-> <<p>>]
            /\ outcome' = done.outcome
            /\ sent' = done.sent
            /\ UNCHANGED <<data_dir, collection, files>>

\* upload(file_path, api_key=api_key)
CallUpload ==
    \E file_path \in UploadArgs, api_key \in ApiKeys,
       response1 \in PresignedResponses, response2 \in PutResponses :
        LET done == upload(file_path, api_key, files, response1, response2)
        IN  /\ pc = "idle"
            /\ pc' = "done"
            /\ call' = [op |-> "upload", args |-> <<file_path, api_key>>]
            /\ outcome' = done.outcome
            /\ files' = done.files
            /\ sent' = done.sent
            /\ UNCHANGED <<data_dir, collection>>

\* A caller that downloads the files of its collection.
NextBulk ==
    \/ CallDownloadMember
    \/ CallDownloadAllFiles
    \/ Done

SpecBulk == InitBulk /\ [][NextBulk]_vars

\* A caller of download, query and upload.
NextIO ==
    \/ CallDownload
    \/ CallQuery
    \/ CallUpload
    \/ Done

SpecIO == InitIO /\ [][NextIO]_vars

---------------------------------------------------------------------------
(* Notions the claims are stated in                                        *)

\* s is YYYYMMDD, eight digits, and names a day of the calendar.
RealCalendarDate(s) ==
    /\ IsNDigits(s, 8)
    /\ ToInt(Slice(s, 0, 4)) >= 1
    /\ ToInt(Slice(s, 4, 6)) \in 1..12
    /\ ToInt(Slice(s, 6, 8)) \in 1..DaysInMonth(ToInt(Slice(s, 0, 4)), ToInt(Slice(s, 4, 6)))

\* s is "v" and exactly three digits.
VersionString(s) == \E a \in Digits, b \in Digits, c \in Digits : s = "v" \o a \o b \o c

\* The set of the entries of a message.
Entries(message) == {message[i] : i \in 1..Len(message)}

\* The instance a call returned is of class cls.
ReturnedInstance(cls) ==
    /\ call.op \in {"generate_imap_file_path", "ScienceFilePath", "AncillaryFilePath",
                    "SPICEFilePath", "ScienceFilePath.generate_from_inputs"}
    /\ Returned(outcome)
    /\ outcome.value.cls = cls

---------------------------------------------------------------------------
(* C1 *)

\* C1: generate_imap_file_path(filename) returns what the first of
\* SPICEFilePath, ScienceFilePath, AncillaryFilePath (in this order) returns
\* that accepts the filename; when none accepts it, it raises one ValueError
\* that names the filename and says that it matches none of the three
\* formats, and returns no record.
C1_FirstFamilyOrValueError ==
    call.op = "generate_imap_file_path" =>
        LET fn == call.args[1]
            spice == SPICEFilePath(fn)
            science == ScienceFilePath(fn, data_dir)
            ancillary == AncillaryFilePath(fn, data_dir)
        IN  /\ Returned(spice) => outcome = spice
            /\ Raised(spice) /\ Returned(science) => outcome = science
            /\ Raised(spice) /\ Raised(science) /\ Returned(ancillary)
                   => outcome = ancillary
            /\ Raised(spice) /\ Raised(science) /\ Raised(ancillary)
                   => /\ Raised(outcome)
                      /\ outcome.exc = "ValueError"
                      /\ fn \in Entries(outcome.message)
                      /\ "It does not match Spice, Science or Ancillary file formats"
                             \in Entries(outcome.message)

\* The third family was reached: SPICE and Science refused the name and
\* Ancillary accepted it.
C1_Witness ==
    /\ call.op = "generate_imap_file_path"
    /\ Raised(SPICEFilePath(call.args[1]))
    /\ Raised(ScienceFilePath(call.args[1], data_dir))
    /\ Returned(outcome)
    /\ outcome.value.cls = "AncillaryFilePath"

---------------------------------------------------------------------------
(* C2 *)

\* Field inputs that are valid: a valid instrument and data level, a
\* descriptor that is not empty and holds no "_", a real date, a version,
\* and no repointing or one of 0..99999.
ValidScienceInputs(a) ==
    /\ a[1] \in VALID_INSTRUMENTS
    /\ a[2] \in VALID_DATALEVELS
    /\ a[3] # "" /\ Positions(a[3], "_") = {}
    /\ RealCalendarDate(a[4])
    /\ VersionString(a[5])
    /\ IsNone(a[6]) \/ Get(a[6]) \in 0..99999

\* C2: for valid field inputs, the record generate_from_inputs returns has
\* the mission imap and the instrument, data_level, descriptor, start_date,
\* version and repointing of the inputs (a repointing given is present and
\* equal, 0 included), and the extension the data level determines.
C2_ScienceRoundTrip ==
    (call.op = "ScienceFilePath.generate_from_inputs" /\ ValidScienceInputs(call.args)) =>
        /\ Returned(outcome)
        /\ outcome.value.mission = "imap"
        /\ outcome.value.instrument = call.args[1]
        /\ outcome.value.data_level = call.args[2]
        /\ outcome.value.descriptor = call.args[3]
        /\ outcome.value.start_date = call.args[4]
        /\ outcome.value.version = call.args[5]
        /\ outcome.value.repointing = call.args[6]
        /\ outcome.value.extension = (IF call.args[2] = "l0" THEN "pkts" ELSE "cdf")

---------------------------------------------------------------------------
(* C3 *)

\* The field constraints of a science record.
ScienceConstraints(r) ==
    /\ r.mission = "imap"
    /\ r.instrument \in VALID_INSTRUMENTS
    /\ r.data_level \in VALID_DATALEVELS
    /\ RealCalendarDate(r.start_date)
    /\ VersionString(r.version)
    /\ r.extension = "pkts" <=> r.data_level = "l0"
    /\ r.extension # "pkts" => r.extension = "cdf"

\* C3: every ScienceFilePath instance a construction returns (from a
\* filename, from generate_from_inputs or from generate_imap_file_path)
\* satisfies all the field constraints; a construction whose fields violate
\* one raises, and leaves no instance.
C3_ScienceInstanceValid ==
    /\ ReturnedInstance("ScienceFilePath") => ScienceConstraints(outcome.value)
    /\ (/\ call.op = "ScienceFilePath"
        /\ ~IsNone(ScienceExtract(PathOf(call.args[1])))
        /\ ~ScienceConstraints(Get(ScienceExtract(PathOf(call.args[1])))))
           => Raised(outcome)

\* A raw (l0) record generated from inputs: its extension is pkts.
C3_Witness ==
    /\ call.op = "ScienceFilePath.generate_from_inputs"
    /\ ReturnedInstance("ScienceFilePath")
    /\ outcome.value.data_level = "l0"
    /\ outcome.value.extension = "pkts"

---------------------------------------------------------------------------
(* C4 *)

\* The entries of the constraints the groups c of a science name violate.
ScienceViolations(c) ==
    {e \in {"Invalid mission", "Invalid instrument", "Invalid data level",
            "Invalid start date format", "Invalid version format",
            "Invalid extension"} :
        \/ e = "Invalid mission" /\ c.mission # "imap"
        \/ e = "Invalid instrument" /\ c.instrument \notin VALID_INSTRUMENTS
        \/ e = "Invalid data level" /\ c.data_level \notin VALID_DATALEVELS
        \/ e = "Invalid start date format" /\ ~RealCalendarDate(c.start_date)
        \/ e = "Invalid version format" /\ ~VersionString(c.version)
        \/ e = "Invalid extension"
             /\ ~(c.extension = IF c.data_level = "l0" THEN "pkts" ELSE "cdf")}

\* The entries of the constraints the groups c of an ancillary name violate.
AncillaryViolations(c) ==
    {e \in {"Invalid mission", "Invalid instrument", "Invalid extension",
            "Invalid start date format", "Invalid end date format"} :
        \/ e = "Invalid mission" /\ c.mission # "imap"
        \/ e = "Invalid instrument" /\ c.instrument \notin VALID_INSTRUMENTS
        \/ e = "Invalid extension" /\ c.extension # "cdf"
        \/ e = "Invalid start date format" /\ ~RealCalendarDate(c.start_date)
        \/ e = "Invalid end date format"
             /\ ~IsNone(c.end_date) /\ ~RealCalendarDate(Get(c.end_date))}

\* C4: when a science or ancillary filename matches the raw pattern and
\* violates constraints, the construction raises one error of its family
\* whose message holds the entry of every violated constraint.
C4_AllViolationsReported ==
    /\ (call.op = "ScienceFilePath" /\ ~IsNone(ScienceExtract(PathOf(call.args[1])))) =>
           LET violated == ScienceViolations(Get(ScienceExtract(PathOf(call.args[1]))))
           IN  violated # {} =>
                   /\ Raised(outcome)
                   /\ outcome.exc = "InvalidScienceFileError"
                   /\ Entries(outcome.message) = violated
    /\ (call.op = "AncillaryFilePath" /\ ~IsNone(AncillaryExtract(PathOf(call.args[1])))) =>
           LET violated == AncillaryViolations(Get(AncillaryExtract(PathOf(call.args[1]))))
           IN  violated # {} =>
                   /\ Raised(outcome)
                   /\ outcome.exc = "InvalidAncillaryFileError"
                   /\ Entries(outcome.message) = violated

\* The science name with an invalid instrument, data level, start date and
\* extension: the four entries are in the one message.
C4_Witness ==
    /\ call.op = "ScienceFilePath"
    /\ call.args[1] = "imap_xxx_l9_d_20240230_v001.pkts"
    /\ Raised(outcome)
    /\ Entries(outcome.message) =
           {"Invalid instrument", "Invalid data level",
            "Invalid start date format", "Invalid extension"}

---------------------------------------------------------------------------
(* C5 *)

\* name is imap_<instrument>_<descriptor>_<start_date>[-<end_date>]_<version>.<ext>
AncillaryGrammar(name, ext) ==
    LET f == Split(name, "_")
    IN  /\ Len(f) = 5
        /\ f[1] = "imap"
        /\ f[2] # "" /\ f[3] # ""
        /\ \/ IsNDigits(f[4], 8)
           \/ /\ Len(f[4]) = 17
              /\ IsNDigits(Slice(f[4], 0, 8), 8)
              /\ Slice(f[4], 8, 9) = "-"
              /\ IsNDigits(Slice(f[4], 9, 17), 8)
        /\ \E v \in {Slice(f[5], 0, 4)} : VersionString(v)
        /\ SliceFrom(f[5], 4) = "." \o ext

\* C5: raw extraction succeeds for an ancillary name of each of the
\* extensions cdf, csv and json; the construction of a csv or json name
\* fails in the validation, with the extension entry, and not at the
\* pattern; a construction succeeds for the extension cdf only.
C5_RawGrammarAcceptsCdfCsvJson ==
    /\ (/\ call.op = "AncillaryFilePath.extract_filename_components"
        /\ \E ext \in {"cdf", "csv", "json"} : AncillaryGrammar(call.args[1], ext))
           => Returned(outcome)
    /\ (/\ call.op = "AncillaryFilePath"
        /\ \E ext \in {"csv", "json"} :
               AncillaryGrammar(PathName(PathOf(call.args[1])), ext))
           => /\ Raised(outcome)
              /\ "Invalid extension" \in Entries(outcome.message)
    /\ (call.op = "AncillaryFilePath" /\ Returned(outcome))
           => outcome.value.extension = "cdf"

---------------------------------------------------------------------------
(* C6 *)

\* The name ends in a key of the extension table, after a stem.
SuffixIsKey(name) ==
    \E k \in DOMAIN SPICE_DIR_MAPPING : EndsWith(name, k) /\ Len(name) > Len(k)

\* C6: SPICEFilePath accepts a filename exactly when its suffix, of one or
\* of two segments, is a key of the extension table, whatever precedes it
\* (x.001.spin.csv included).
C6_SPICEAcceptsBySuffix ==
    call.op = "SPICEFilePath" =>
        (Returned(outcome) <=> SuffixIsKey(PathName(PathOf(call.args[1]))))

---------------------------------------------------------------------------
(* C7 *)

\* The archive root a record was constructed under: no components when
\* config["DATA_DIR"] is unset or empty.
ArchiveRoot(dd) ==
    IF ~Truthy(dd) THEN PathOf("")
    ELSE IF dd.type = "Path" THEN dd.path ELSE PathOf(dd.s)

\* C7: construct_path of a science record returns
\* <archive_root>/<mission>/<instrument>/<data_level>/<YYYY>/<MM>/<filename>,
\* YYYY and MM the first four and the next two characters of start_date and
\* <filename> the name of the file.
C7_SciencePath ==
    (call.op = "construct_path" /\ call.args[1].cls = "ScienceFilePath") =>
        LET r == call.args[1]
        IN  outcome =
                Return([root |-> ArchiveRoot(r.data_dir).root,
                        parts |-> ArchiveRoot(r.data_dir).parts
                                  \o <<r.mission, r.instrument, r.data_level,
                                       Slice(r.start_date, 0, 4),
                                       Slice(r.start_date, 4, 6),
                                       PathName(r.filename)>>])

---------------------------------------------------------------------------
(* C8 *)

\* The directories of the relative path of a record.
RelativeDirs(r) ==
    CASE r.cls = "ScienceFilePath" ->
             <<"imap", r.instrument, r.data_level,
               Slice(r.start_date, 0, 4), Slice(r.start_date, 4, 6)>>
      [] r.cls = "AncillaryFilePath" -> <<"imap", "ancillary", r.instrument>>
      [] r.cls = "SPICEFilePath" -> <<"spice", SPICE_DIR_MAPPING[r.file_extension]>>

\* C8: with the archive root unset or empty, construct_path succeeds for a
\* record of each family and returns the relative path, without a prefix:
\* the directories of the family and then the filename the record was
\* constructed from.
C8_UnsetRootRelativePath ==
    (call.op = "construct_path" /\ ~Truthy(data_dir)) =>
        /\ Returned(outcome)
        /\ outcome.value = [root |-> "",
                            parts |-> RelativeDirs(call.args[1])
                                      \o call.args[1].filename.parts]

---------------------------------------------------------------------------
(* C9 *)

\* C9: is_valid_date accepts a string exactly when it is an eight-digit
\* YYYYMMDD string that names a real calendar date.
C9_DateAcceptance ==
    call.op = "is_valid_date" =>
        (outcome.value <=> RealCalendarDate(call.args[1]))

---------------------------------------------------------------------------
(* C10 *)

\* C10: is_valid_version accepts exactly "latest" and "v" followed by
\* exactly three digits.
C10_VersionAcceptance ==
    call.op = "is_valid_version" =>
        (IsTrue(outcome.value)
            <=> (call.args[1] = "latest" \/ VersionString(call.args[1])))

\* A string longer than a version by one digit was rejected.
C10_Witness ==
    /\ call.op = "is_valid_version"
    /\ call.args[1] = "v1234"
    /\ ~IsTrue(outcome.value)


---------------------------------------------------------------------------
(* C11 *)

\* The outcomes of the classifier for the filenames fl, in order.
Classified(fl, dd) ==
    [i \in 1..Len(fl) |-> generate_imap_file_path(fl[i], dd)]

\* Records that are of one family and share the instrument, the descriptor
\* and, when they are science records, the data level.
MembersAgree(recs) ==
    \A i, j \in 1..Len(recs) :
        /\ recs[i].cls = recs[j].cls
        /\ recs[i].cls # "SPICEFilePath" =>
              /\ recs[i].instrument = recs[j].instrument
              /\ recs[i].descriptor = recs[j].descriptor
        /\ recs[i].cls = "ScienceFilePath" =>
              recs[i].data_level = recs[j].data_level

---------------------------------------------------------------------------
(* C12 *)

\* YYYYMMDD as a number: later dates are larger numbers.
DateNumber(s) == ToInt(s)

\* The date a record is valid to, as the string of its filename.
EndString(r) ==
    IF r.cls = "AncillaryFilePath" /\ ~IsNone(r.end_date)
    THEN Get(r.end_date)
    ELSE r.start_date

\* C12: get_time_range() of a ProcessingInput returns the earliest
\* start_date of its members and the latest of their effective ends (the
\* end_date of a member that has one, else its start_date), and returns the
\* same pair for the same members in any other order.
C12_TimeRange ==
    call.op = "get_time_range" =>
        LET self == call.args[1]
            recs == self.imap_file_paths
            first == CHOOSE i \in 1..Len(recs) : \A j \in 1..Len(recs) :
                         DateNumber(recs[i].start_date) <= DateNumber(recs[j].start_date)
            last == CHOOSE i \in 1..Len(recs) : \A j \in 1..Len(recs) :
                        DateNumber(EndString(recs[i])) >= DateNumber(EndString(recs[j]))
        IN  /\ outcome.value[1] = DateTime(recs[first].start_date)
            /\ outcome.value[2] = DateTime(EndString(recs[last]))
            /\ \A other \in InputFilenameLists :
                  {other[i] : i \in 1..Len(other)}
                      = {self.filename_list[i] : i \in 1..Len(self.filename_list)}
                  => get_time_range(ProcessingInput(self.input_type, other,
                                                    data_dir).value) = outcome.value

\* The time range of three calibration files was asked: the earliest start
\* is the third member's, the latest end the second member's end_date.
C12_Witness ==
    /\ call.op = "get_time_range"
    /\ call.args[1].filename_list =
           <<"imap_mag_l1b-cal_20250101_v001.cdf",
             "imap_mag_l1b-cal_20250103-20250104_v002.cdf",
             "imap_mag_l1b-cal_20241230-20250102_v003.cdf">>
    /\ outcome.value = <<[year |-> 2024, month |-> 12, day |-> 30],
                         [year |-> 2025, month |-> 1, day |-> 4]>>

---------------------------------------------------------------------------
(* C13 *)

\* C13: deserializing the serialization of a collection into an empty
\* collection gives as many entries, in the same order, each with the
\* family and data_type tag, the filenames in their order, the source and
\* the descriptor of the entry it was serialized from.
C13_SerializeRoundTrip ==
    call.op = "deserialize into empty" =>
        /\ Returned(outcome)
        /\ Len(outcome.value) = Len(collection)
        /\ \A i \in 1..Len(collection) :
              /\ outcome.value[i].input_type = collection[i].input_type
              /\ outcome.value[i].data_type = collection[i].data_type
              /\ outcome.value[i].filename_list = collection[i].filename_list
              /\ outcome.value[i].source = collection[i].source
              /\ outcome.value[i].descriptor = collection[i].descriptor

\* A collection of an ancillary entry of two files and a science entry of
\* two files went through serialize and deserialize.
C13_Witness ==
    /\ call.op = "deserialize into empty"
    /\ Len(collection) = 2
    /\ collection[1].input_type = "ANCILLARY_FILE"
    /\ Len(collection[1].filename_list) = 2
    /\ collection[2].input_type = "SCIENCE_FILE"
    /\ Len(collection[2].filename_list) = 2
    /\ Len(outcome.value) = 2

---------------------------------------------------------------------------
(* C14 *)

\* C14: add and deserialize only append: every step leaves the entries of
\* the collection where they were and as they were; deserialize puts one
\* reconstructed entry per entry of the payload behind them, in the order
\* of the payload, and add puts its arguments behind them, in their order.
C14_AppendOnly ==
    [][/\ Len(collection') >= Len(collection)
       /\ SubSeq(collection', 1, Len(collection)) = collection
       /\ (pc = "idle" /\ call'.op = "deserialize") =>
              /\ Len(collection') = Len(collection) + Len(call'.args[1])
              /\ \A i \in 1..Len(call'.args[1]) :
                    /\ collection'[Len(collection) + i].data_type
                           = call'.args[1][i].type
                    /\ collection'[Len(collection) + i].filename_list
                           = call'.args[1][i].files
       /\ (pc = "idle" /\ call'.op = "add") =>
              collection' = collection \o call'.args]_vars

\* A collection of two entries deserialized a payload of one entry and has
\* three entries.
C14_Witness ==
    /\ call.op = "deserialize"
    /\ Len(call.args[1]) = 1
    /\ Len(collection) = 3

---------------------------------------------------------------------------
(* C15 *)

\* sub occurs in s at some position.
OccursIn(sub, s) == \E p \in 0..Len(s) : StartsWith(SliceFrom(s, p), sub)

\* The entry is one the filters ask for.
Asked(e, source, descriptor) ==
    /\ ~IsNone(source) => e.source = Get(source)
    /\ ~IsNone(descriptor) => OccursIn(Get(descriptor), e.descriptor)

\* The number of member files of the asked entries among the first n.
RECURSIVE AskedFiles(_, _, _, _)
AskedFiles(coll, n, source, descriptor) ==
    IF n = 0 THEN 0
    ELSE AskedFiles(coll, n - 1, source, descriptor)
         + (IF Asked(coll[n], source, descriptor)
            THEN Len(coll[n].filename_list) ELSE 0)

\* C15: get_file_paths(source, descriptor) returns one path per member file
\* of the entries whose source is the given source (when one is given) and
\* whose descriptor contains the given descriptor (when one is given), and
\* of no other entry: the constructed paths of their files, entry after
\* entry in the order of the collection, file after file in the order of
\* the entry. Without filters that is every member file of the collection.
C15_FilePaths ==
    call.op = "get_file_paths" =>
        LET source == call.args[1]
            descriptor == call.args[2]
            paths == outcome.value
        IN  /\ Len(paths) = AskedFiles(collection, Len(collection), source, descriptor)
            /\ \A i \in 1..Len(collection) :
                  Asked(collection[i], source, descriptor) =>
                      \A j \in 1..Len(collection[i].filename_list) :
                          paths[AskedFiles(collection, i - 1, source, descriptor) + j]
                              = construct_path(
                                    generate_imap_file_path(
                                        collection[i].filename_list[j], data_dir).value,
                                    data_dir).value

\* With the entries of 45sensor-pset (two files) and 90sensor-pset in the
\* collection, the descriptor "45se" was asked and the two paths of the
\* first entry came back.
C15_Witness ==
    /\ call.op = "get_file_paths"
    /\ call.args = <<None, Some("45se")>>
    /\ Len(collection) = 2
    /\ collection[1].descriptor = "45sensor-pset"
    /\ collection[2].descriptor = "90sensor-pset"
    /\ Len(outcome.value) = 2


---------------------------------------------------------------------------
(* C16 *)

\* What the claim says of one download of the file at path: a file that is
\* there is returned without a request and left as it is; a file that is
\* not there and is fetched is there afterwards, and its path is returned.
DownloadedOnlyIfAbsent(path) ==
    /\ path \in DOMAIN files =>
           /\ outcome' = Return(PathOf(path))
           /\ sent' = <<>>
           /\ files' = files
    /\ (path \notin DOMAIN files /\ sent' # <<>> /\ sent'[1].result.status = "ok") =>
           /\ outcome' = Return(PathOf(path))
           /\ path \in DOMAIN files'

\* Every path of get_file_paths() exists.
AllFilesExist(fs) ==
    \A i \in 1..Len(get_file_paths(collection, None, None, data_dir)) :
        Exists(fs, get_file_paths(collection, None, None, data_dir)[i])

\* C16: a download of a file of the collection sends no request, leaves the
\* file untouched and returns its path when the file exists at its
\* constructed path, and leaves the file at that path and returns the path
\* when it was absent and the fetch succeeded; after a download_all_files()
\* that returned, every path of get_file_paths() exists.
C16_DownloadOnlyIfAbsent ==
    [][/\ (pc = "idle" /\ call'.op = "download") =>
              DownloadedOnlyIfAbsent(call'.args[1])
       /\ (pc = "idle" /\ call'.op = "download_all_files" /\ Returned(outcome')) =>
              AllFilesExist(files')]_vars

---------------------------------------------------------------------------
(* C17 *)

\* The filters a call of query supplies.
SuppliedFilters(p) == {k \in DOMAIN p : ~IsNone(p[k])}

IsValueError(o) == Raised(o) /\ o.exc = "ValueError"

\* C17: a query with no filter, or with version 'latest' and no other
\* filter, fails with a ValueError and sends no request; a request of a query
\* with version 'latest' carries the other filters supplied and no version.
C17_QueryRequiresFilter ==
    call.op = "query" =>
        /\ SuppliedFilters(call.args[1]) = {} =>
               IsValueError(outcome) /\ sent = <<>>
        /\ (call.args[1].version = Some("latest")
            /\ SuppliedFilters(call.args[1]) = {"version"}) =>
               IsValueError(outcome) /\ sent = <<>>
        /\ (call.args[1].version = Some("latest") /\ sent # <<>>) =>
               /\ DOMAIN sent[1].with = SuppliedFilters(call.args[1]) \ {"version"}
               /\ DOMAIN sent[1].with # {}
               /\ \A k \in DOMAIN sent[1].with : sent[1].with[k] = Get(call.args[1][k])

\* A query with version 'latest' alone has failed without a request.
C17_Witness ==
    /\ call.op = "query"
    /\ call.args[1].version = Some("latest")
    /\ SuppliedFilters(call.args[1]) = {"version"}
    /\ IsValueError(outcome)
    /\ sent = <<>>

---------------------------------------------------------------------------
(* C18 *)

\* The number a version string vNNN names.
NumberOfVersion(v) == ToInt(SliceFrom(v, 1))

\* The positions of the records of the largest version number.
LatestPositions(records) ==
    {i \in 1..Len(records) :
        \A j \in 1..Len(records) :
            NumberOfVersion(records[j].version) <= NumberOfVersion(records[i].version)}

\* The k-th position of a set of positions, in increasing order.
KthPosition(I, k) == CHOOSE i \in I : Cardinality({j \in I : j < i}) = k - 1

\* list holds the records at the positions I, in their order.
IsSubSequenceAt(list, records, I) ==
    /\ Len(list) = Cardinality(I)
    /\ \A k \in 1..Len(list) : list[k] = records[KthPosition(I, k)]

\* C18: a query with version 'latest' returns, in their order, the received
\* records whose version number is the largest among the received records
\* (none when none is received); with any other version filter it returns
\* the received records unchanged.
C18_LatestFilter ==
    (call.op = "query" /\ Returned(outcome)) =>
        IF call.args[1].version = Some("latest")
        THEN IsSubSequenceAt(outcome.value, sent[1].result.body,
                             LatestPositions(sent[1].result.body))
        ELSE outcome.value = sent[1].result.body

\* A query with version 'latest' has received a record of version v001 and
\* one of version v002, and returned the second.
C18_Witness ==
    /\ call.op = "query"
    /\ Returned(outcome)
    /\ call.args[1].version = Some("latest")
    /\ Len(sent[1].result.body) = 2
    /\ sent[1].result.body[1].version = "v001"
    /\ outcome.value = <<sent[1].result.body[2]>>
    /\ outcome.value[1].version = "v002"

---------------------------------------------------------------------------
(* C19 *)

IsTransportCall == call.op \in {"download", "query", "upload"}

\* The outcome is the IMAPDataAccessError raised from the failure of the
\* last request sent.
UnifiedError(o, requests) ==
    /\ Raised(o)
    /\ o.exc = "IMAPDataAccessError"
    /\ o.cause = requests[Len(requests)].result.status
    /\ o.cause \in {"HTTPError", "ConnectionError"}

\* A request of the call has failed.
RequestFailed(requests) ==
    requests # <<>> /\ requests[Len(requests)].result.status # "ok"

\* The statement as the specification makes it: every failure of upload is
\* the IMAPDataAccessError carrying its cause, and so is every failed request
\* of download and query.
C19_EveryUploadFailureUnified ==
    IsTransportCall =>
        /\ (call.op = "upload" /\ Raised(outcome)) => UnifiedError(outcome, sent)
        /\ RequestFailed(sent) => UnifiedError(outcome, sent)

\* C19: every failed request of upload (the request for the presigned URL or
\* the PUT of the contents), of download and of query surfaces as the
\* IMAPDataAccessError carrying the failure as its cause; an upload that
\* fails otherwise is that of a file that does not exist, which raises
\* FileNotFoundError before any request is sent.
C19_TransportFailuresUnified ==
    IsTransportCall =>
        /\ RequestFailed(sent) => UnifiedError(outcome, sent)
        /\ (call.op = "upload" /\ Raised(outcome)) =>
               \/ RequestFailed(sent) /\ UnifiedError(outcome, sent)
               \/ /\ outcome.exc = "FileNotFoundError"
                  /\ call.args[1] \notin DOMAIN files
                  /\ sent = <<>>

\* An upload whose PUT failed after the presigned URL was received.
C19_Witness ==
    /\ call.op = "upload"
    /\ Len(sent) = 2
    /\ sent[1].result.status = "ok"
    /\ sent[2].method = "PUT"
    /\ sent[2].result.status = "HTTPError"
    /\ UnifiedError(outcome, sent)
---------------------------------------------------------------------------
(* C20 *)

\* The outcomes of the three constructors for fn, in the order of trying.
FamilyOutcomes(fn, dd) ==
    <<SPICEFilePath(fn), ScienceFilePath(fn, dd), AncillaryFilePath(fn, dd)>>

\* The orders in which three families can be tried.
Orders == {o \in [1..3 -> 1..3] : \A i, j \in 1..3 : i # j => o[i] # o[j]}

\* C20: for every filename at most one of SPICEFilePath, ScienceFilePath and
\* AncillaryFilePath accepts it, so that the record generate_imap_file_path
\* returns is the one the classifier would return under any order of
\* trying the three families.
C20_GrammarsExclusive ==
    call.op = "generate_imap_file_path" =>
        LET outs == FamilyOutcomes(call.args[1], data_dir)
        IN  /\ Cardinality({i \in 1..3 : Returned(outs[i])}) <= 1
            /\ \A o \in Orders :
                   LET other == FirstAccepted(call.args[1], outs[o[1]],
                                              outs[o[2]], outs[o[3]])
                   IN  /\ Returned(other) <=> Returned(outcome)
                       /\ Returned(other) => other = outcome

\* A name of six fields, two of them dates, as close to both grammars as a
\* name gets, was classified: Science took it and Ancillary refuses it.
C20_Witness ==
    /\ call.op = "generate_imap_file_path"
    /\ call.args[1] = "imap_mag_l1a_20250103_20250104_v002.cdf"
    /\ Returned(outcome)
    /\ outcome.value.cls = "ScienceFilePath"
    /\ Raised(AncillaryFilePath(call.args[1], data_dir))

---------------------------------------------------------------------------
(* C21 *)

\* s is "repoint" and exactly five digits.
RepointingString(s) ==
    /\ Len(s) = 12
    /\ SubSeq(s, 1, 7) = "repoint"
    /\ \A i \in 8..12 : SubSeq(s, i, i) \in Digits

\* The value v of the filter k of a query is valid.
FilterValid(k, v) ==
    CASE k = "instrument" -> v \in VALID_INSTRUMENTS
      [] k = "data_level" -> v \in VALID_DATALEVELS
      [] k \in {"start_date", "end_date"} -> RealCalendarDate(v)
      [] k = "version" -> v = "latest" \/ VersionString(v)
      [] k = "repointing" -> RepointingString(v)
      [] k = "extension" -> v \in {"cdf", "pkts"}
      [] OTHER -> TRUE

\* The filters a call of query supplies that are not valid.
InvalidFilters(p) == {k \in SuppliedFilters(p) : ~FilterValid(k, Get(p[k]))}

\* C21: a query with a supplied filter that is not valid (instrument,
\* data_level, start_date, end_date, version, repointing or extension) raises
\* ValueError and sends no request; a request is sent only when every
\* supplied filter is valid.
C21_ValidatedBeforeRequest ==
    call.op = "query" =>
        /\ InvalidFilters(call.args[1]) # {} => IsValueError(outcome) /\ sent = <<>>
        /\ sent # <<>> => InvalidFilters(call.args[1]) = {}

---------------------------------------------------------------------------
(* C22 *)

\* The path in the archive of the file a download is asked for.
DestinationOf(file_path) ==
    PathStr(ArchivePath(PathName(PathOf(file_path)), data_dir))

\* Every file and directory of fs is in after as it was.
Kept(fs, after) == \A p \in DOMAIN fs : p \in DOMAIN after /\ after[p] = fs[p]

\* C22: a download whose request fails raises IMAPDataAccessError and leaves
\* the file system as it was, without the destination and without new
\* directories; a download changes the file system only after a response,
\* then it writes the body to the destination, which was absent, and makes
\* its directories; no file that exists is overwritten or removed.
C22_FailedDownloadNoEffect ==
    [][(pc = "idle" /\ call'.op = "download") =>
           /\ RequestFailed(sent') =>
                  UnifiedError(outcome', sent') /\ files' = files
           /\ Kept(files, files')
           /\ files' # files =>
                  /\ Len(sent') = 1
                  /\ sent'[1].result.status = "ok"
                  /\ Returned(outcome')
                  /\ DestinationOf(call'.args[1]) \notin DOMAIN files
                  /\ files'[DestinationOf(call'.args[1])] = sent'[1].result.body]_vars

\* A download of an absent file has failed with an HTTP error, and the
\* destination and the directory above it are still absent.
C22_Witness ==
    /\ call.op = "download"
    /\ call.args[1] = "imap_mag_l1a_norm-magi_20240312_v000.cdf"
    /\ data_dir = DataDirPath("/data")
    /\ sent # <<>>
    /\ sent[1].result.status = "HTTPError"
    /\ UnifiedError(outcome, sent)
    /\ "/data/imap/mag/l1a/2024/03/imap_mag_l1a_norm-magi_20240312_v000.cdf" \notin DOMAIN files
    /\ "/data/imap/mag/l1a/2024/03" \notin DOMAIN files

=============================================================================
